---- MODULE Spec2Model ----
(***************************************************************************)
(* Model of the soksak translation pipeline:                               *)
(*   - process_translation / edit_batch / filter_batch                     *)
(*     (src/src/translate/mod.rs),                                         *)
(*   - the LLM translate decode and the summary update                     *)
(*     (src/src/translate/llm.rs),                                         *)
(*   - the local bridge backend (src/src/translate/apple.rs),              *)
(*   - LlmClient::chat_completion (src/src/llm.rs).                        *)
(*                                                                         *)
(* A string is a sequence of one-character strings.  A provider reply that *)
(* is meant to hold JSON is a record [pre, payload, post]: the characters  *)
(* before the JSON value, the value itself (already tokenised) and the     *)
(* characters after it.                                                    *)
(***************************************************************************)
EXTENDS Integers, Sequences, FiniteSets, TLC

VARIABLES
    segments,             \* input: Vec<TranscriptSegment>
    cfg,                  \* input: translate_config, edit_config, app_config
    pc,                   \* position of process_translation
    pos,                  \* number of input segments in the chunks already taken
    chunk,                \* the chunk being processed
    mapped_results,       \* the window's working Vec<TranslatedSegment>
    translated_segments,  \* the run-wide output accumulator
    summary,              \* the rolling summary
    progress,             \* position of the progress bar
    http,                 \* the chat_completion call in flight (locals of the call)
    last,                 \* the reply the last returned stage call decoded
    bridge,               \* the local bridge backend: results so far, texts passed
    calls,                \* log of the chat_completion calls issued so far
    result                \* what process_translation returned

vars == <<segments, cfg, pc, pos, chunk, mapped_results, translated_segments,
          summary, progress, http, bridge, last, calls, result>>

----------------------------------------------------------------------------
(* Bounds *)

MaxSegs == 2          \* at most this many input segments
MaxWindow == 2        \* configured window sizes range over 0..MaxWindow
MaxReplyLen == 2      \* entries of a decoded reply list, lines of an edit reply
MaxCalls == 2         \* calls made on one client by the client harness

----------------------------------------------------------------------------
(* Strings *)

Min(a, b) == IF a < b THEN a ELSE b

Sentinel == <<"N", "o", "c", "t", "x">>     \* the text: No context yet.
Default == <<"d", "e", "f">>                 \* the text: default
Backtick == "bq"                             \* the backquote character
Fence == <<Backtick, Backtick, Backtick>>    \* the Markdown code fence
FenceJson == Fence \o <<"j", "s", "o", "n">>  \* the fence with the json tag

\* char::is_whitespace, on the characters of the model
IsWhitespace(c) == c \in {" ", "\n", "\r"}

RECURSIVE TrimStart(_)
TrimStart(s) ==
    IF s # <<>> /\ IsWhitespace(Head(s)) THEN TrimStart(Tail(s)) ELSE s

RECURSIVE TrimEnd(_)
TrimEnd(s) ==
    IF s # <<>> /\ IsWhitespace(s[Len(s)]) THEN TrimEnd(SubSeq(s, 1, Len(s) - 1)) ELSE s

\* str::trim
Trim(s) == TrimEnd(TrimStart(s))

StartsWith(s, p) == Len(s) >= Len(p) /\ SubSeq(s, 1, Len(p)) = p

EndsWith(s, p) == Len(s) >= Len(p) /\ SubSeq(s, Len(s) - Len(p) + 1, Len(s)) = p

\* str::trim_start_matches: removes the prefix repeatedly
RECURSIVE TrimStartMatches(_, _)
TrimStartMatches(s, p) ==
    IF StartsWith(s, p) THEN TrimStartMatches(SubSeq(s, Len(p) + 1, Len(s)), p) ELSE s

\* str::trim_end_matches: removes the suffix repeatedly
RECURSIVE TrimEndMatches(_, _)
TrimEndMatches(s, p) ==
    IF EndsWith(s, p) THEN TrimEndMatches(SubSeq(s, 1, Len(s) - Len(p)), p) ELSE s

\* index of the first occurrence of character c in s, 0 when there is none
RECURSIVE Find(_, _, _)
Find(s, c, i) ==
    IF i > Len(s) THEN 0 ELSE IF s[i] = c THEN i ELSE Find(s, c, i + 1)

StripCr(l) == IF l # <<>> /\ l[Len(l)] = "\r" THEN SubSeq(l, 1, Len(l) - 1) ELSE l

\* str::lines: split at line feeds, a final empty piece is no line, a
\* trailing carriage return of a line is dropped
RECURSIVE Lines(_)
Lines(s) ==
    IF s = <<>> THEN <<>>
    ELSE LET i == Find(s, "\n", 1) IN
         IF i = 0 THEN <<StripCr(s)>>
         ELSE <<StripCr(SubSeq(s, 1, i - 1))>> \o Lines(SubSeq(s, i + 1, Len(s)))

\* [&str]::join
RECURSIVE Join(_, _)
Join(ss, sep) ==
    IF ss = <<>> THEN <<>>
    ELSE IF Len(ss) = 1 THEN ss[1]
    ELSE ss[1] \o sep \o Join(Tail(ss), sep)

\* str::split_once at the slash, with the unwrap_or of the callers:
\* <<provider id, model name>>, the model name being Default without a slash
SplitModel(s) ==
    LET i == Find(s, "/", 1) IN
    IF i = 0 THEN <<s, Default>>
    ELSE <<SubSeq(s, 1, i - 1), SubSeq(s, i + 1, Len(s))>>

----------------------------------------------------------------------------
(* Option<T>: a sequence of no or one value *)

None == <<>>
Some(x) == <<x>>
IsSome(o) == o # <<>>
Unwrap(o) == o[1]
UnwrapOr(o, d) == IF o # <<>> THEN o[1] ELSE d

\* the sequences over S of length lo..hi
SeqsOf(S, lo, hi) == UNION {[1..n -> S] : n \in lo..hi}

----------------------------------------------------------------------------
(* Inputs: segments and configuration *)

DefaultWindow == 100

\* the texts of the input transcript, by position; the third one is empty
CorpusTexts == << <<"h">>, <<"w">>, <<>> >>

\* TranscriptSegment: consecutive time codes as in a transcript
Segment(i) ==
    [start |-> 1000 * (i - 1), end |-> 1000 * i,
     text |-> CorpusTexts[((i - 1) % Len(CorpusTexts)) + 1]]

Transcript(n) == [i \in 1..n |-> Segment(i)]

\* a transcript whose second segment has no text
TranscriptWithSilence == <<Segment(1), [Segment(2) EXCEPT !.text = <<>>]>>

\* LlmProviderConfig; the ids are one character long
Provider(id, api_type, json_mode_type, api_key, base_url) ==
    [id |-> id, api_type |-> api_type, json_mode_type |-> json_mode_type,
     api_key |-> api_key, base_url |-> base_url]

ApiTypes == {"OpenAI", "Ollama", "Claude", "Gemini"}
JsonModeTypes == {"None", "JsonObject", "JsonSchema"}

\* app_config.llm.providers of the pipeline runs: one provider per ApiType,
\* and a Gemini provider without an api key
AppProviders ==
    << Provider(<<"o">>, "OpenAI", "JsonSchema", Some(<<"k">>), None),
       Provider(<<"l">>, "Ollama", "JsonObject", None, Some(<<"u", "/">>)),
       Provider(<<"c">>, "Claude", "None", Some(<<"k">>), None),
       Provider(<<"g">>, "Gemini", "JsonObject", Some(<<"k">>), None),
       Provider(<<"n">>, "Gemini", "None", None, None) >>

\* providers.iter().find(|p| p.id == id): the first match, as an Option
RECURSIVE FindProvider(_, _)
FindProvider(providers, id) ==
    IF providers = <<>> THEN None
    ELSE IF Head(providers).id = id THEN Some(Head(providers))
    ELSE FindProvider(Tail(providers), id)

\* FilterConfig
FilterCfg(n, llm) == [prompt |-> <<"p", n>>, threshold |-> None, llm |-> llm]

\* FilterConfig.llm: none, a configured provider (with or without api key),
\* a provider that is not configured
FilterOverrides ==
    {None, Some(<<"g", "/", "f">>), Some(<<"n", "/", "f">>), Some(<<"y", "/", "f">>)}

\* Option<Vec<FilterConfig>>: no list, an empty list, one condition without
\* or with a provider override (resolved or not), two conditions
FilterChoices ==
    {None}
    \cup {Some(<<FilterCfg("1", o)>>) : o \in FilterOverrides}
    \cup {Some(<<FilterCfg("1", None), FilterCfg("2", Some(<<"g", "/", "f">>))>>)}

\* Option<Vec<String>>
InstructionChoices == {None, Some(<< <<"i">> >>)}

EditCfg(d, ins, fs) == [default_model |-> d, instructions |-> ins, filters |-> fs]

\* Option<Edit>: none; instructions and a filter without override; either
\* alone; the filter overrides and two conditions; the empty lists; an edit
\* or a filter stage whose default provider is not configured
EditChoices ==
    {None}
    \cup {Some(EditCfg(<<"c", "/", "e">>, Some(<< <<"i">> >>), fs)) :
            fs \in {None, Some(<<FilterCfg("1", None)>>)}}
    \cup {Some(EditCfg(<<"c", "/", "e">>, None, fs)) : fs \in FilterChoices \ {None}}
    \cup {Some(EditCfg(<<"c", "/", "e">>, Some(<<>>), Some(<<>>)))}
    \cup {Some(EditCfg(<<"z", "/", "e">>, Some(<< <<"i">> >>), None))}
    \cup {Some(EditCfg(<<"z", "/", "e">>, None, Some(<<FilterCfg("1", o)>>))) :
            o \in FilterOverrides}

Windows == {None} \cup {Some(n) : n \in 0..MaxWindow}

\* TranslateEngine: the LLM engine on an OpenAI provider with every window,
\* on an Ollama provider named without a model, on a provider that is not
\* configured, and the Apple engine
EngineChoices ==
    {[type |-> "LLM", model |-> <<"o", "/", "m">>, window |-> w] : w \in Windows}
    \cup {[type |-> "LLM", model |-> <<"l">>, window |-> None]}
    \cup {[type |-> "LLM", model |-> <<"z", "/", "m">>, window |-> w] :
            w \in {Some(0), Some(1)}}
    \cup {[type |-> "Apple", model |-> <<>>, window |-> w] :
            w \in {None, Some(0), Some(1)}}

Configs ==
    {[engine |-> e, edit |-> ed, providers |-> AppProviders] :
        e \in EngineChoices, ed \in EditChoices}

----------------------------------------------------------------------------
(* LlmClient::chat_completion (src/src/llm.rs) *)

\* OpenAiBody that attaches nothing in schema mode without a schema
OpenAiBodyNoSchemaFallback(provider, model, messages, json_mode, response_schema) ==
    LET base == [model |-> model, messages |-> messages,
                 response_format |-> None, format |-> None]
        json_object == [type |-> "json_object", strict |-> FALSE, schema |-> None]
    IN
    IF ~json_mode THEN base
    ELSE IF provider.json_mode_type = "JsonObject" THEN
        IF provider.api_type = "Ollama"
        THEN [base EXCEPT !.format = Some("json")]
        ELSE [base EXCEPT !.response_format = Some(json_object)]
    ELSE IF provider.json_mode_type = "JsonSchema" THEN
        IF IsSome(response_schema)
        THEN [base EXCEPT !.response_format =
                 Some([type |-> "json_schema", strict |-> TRUE,
                       schema |-> response_schema])]
        ELSE base
    ELSE base

\* serde_json body of the OpenAI-compatible request; an absent key is None
OpenAiBody(provider, model, messages, json_mode, response_schema) ==
    LET base == [model |-> model, messages |-> messages,
                 response_format |-> None, format |-> None]
        json_object == [type |-> "json_object", strict |-> FALSE, schema |-> None]
    IN
    IF ~json_mode THEN base
    ELSE IF provider.json_mode_type = "JsonObject" THEN
        IF provider.api_type = "Ollama"
        THEN [base EXCEPT !.format = Some("json")]
        ELSE [base EXCEPT !.response_format = Some(json_object)]
    ELSE IF provider.json_mode_type = "JsonSchema" THEN
        IF IsSome(response_schema)
        THEN [base EXCEPT !.response_format =
                 Some([type |-> "json_schema", strict |-> TRUE,
                       schema |-> response_schema])]
        ELSE [base EXCEPT !.response_format = Some(json_object)]
    ELSE base

\* the request the OpenAI-compatible loop posts for a body
OpenAiRequest(provider, body) ==
    [url |-> IF IsSome(provider.base_url)
             THEN [base |-> TrimEndMatches(Unwrap(provider.base_url), <<"/">>),
                   path |-> "/v1/chat/completions"]
             ELSE [base |-> IF provider.api_type = "Ollama"
                            THEN <<"localhost:11434">> ELSE <<"api.openai.com">>,
                   path |-> "/v1/chat/completions"],
     auth |-> IF IsSome(provider.api_key)
              THEN Some([header |-> "Authorization",
                         value |-> <<"Bearer", " ">> \o Unwrap(provider.api_key)])
              ELSE None,
     body |-> body]

ClaudeRequest(provider, model, messages) ==
    [url |-> [base |-> IF IsSome(provider.base_url)
                       THEN TrimEndMatches(Unwrap(provider.base_url), <<"/">>)
                       ELSE <<"api.anthropic.com">>,
              path |-> "/v1/messages"],
     auth |-> Some([header |-> "x-api-key", value |-> UnwrapOr(provider.api_key, <<>>)]),
     body |-> [model |-> model, messages |-> messages, max_tokens |-> 4096]]

\* the role remapping of the Gemini content array
GeminiContents(messages) ==
    [i \in 1..Len(messages) |->
        [role |-> IF messages[i].role = "user" THEN "user" ELSE "model",
         parts |-> messages[i].content]]

\* GeminiRequest that asks for JSON whatever the declared capability
GeminiRequestIgnoresCapability(provider, model, messages, json_mode) ==
    [url |-> [base |-> TrimEndMatches(
                           UnwrapOr(provider.base_url, <<"generativelanguage.googleapis.com">>),
                           <<"/">>),
              path |-> "/v1beta/models/:generateContent",
              model |-> model, key |-> Unwrap(provider.api_key)],
     auth |-> None,
     body |-> [contents |-> GeminiContents(messages),
               generationConfig |->
                   IF json_mode THEN Some("application/json") ELSE None]]

GeminiRequest(provider, model, messages, json_mode) ==
    [url |-> [base |-> TrimEndMatches(
                           UnwrapOr(provider.base_url, <<"generativelanguage.googleapis.com">>),
                           <<"/">>),
              path |-> "/v1beta/models/:generateContent",
              model |-> model, key |-> Unwrap(provider.api_key)],
     auth |-> None,
     body |-> [contents |-> GeminiContents(messages),
               generationConfig |->
                   IF json_mode /\ provider.json_mode_type # "None"
                   THEN Some("application/json") ELSE None]]

\* what the server may answer to one request: a 2xx whose envelope holds
\* the content string or not, a non-2xx whose error text mentions
\* response_format (rf) and json_schema (js) or not, or no answer at all
ServerResponses ==
    {[status |-> "2xx", text |-> t, rf |-> FALSE, js |-> FALSE] : t \in BOOLEAN}
    \cup {[status |-> "4xx", text |-> FALSE, rf |-> rf, js |-> js] :
            rf \in BOOLEAN, js \in BOOLEAN}
    \cup {[status |-> "neterr", text |-> FALSE, rf |-> FALSE, js |-> FALSE]}

HttpIdle ==
    [state |-> "idle", provider |-> None, retry_count |-> 0,
     current_body |-> None, sent |-> <<>>, received |-> <<>>]

\* chat_completion up to its first await: the dispatch on api_type, the
\* body and the first request.  The Gemini path fails before any request
\* when the provider has no api key.
StartCall(provider, model, messages, json_mode, response_schema) ==
    IF provider.api_type \in {"OpenAI", "Ollama"} THEN
        LET body == OpenAiBody(provider, model, messages, json_mode, response_schema) IN
        [state |-> "sent", provider |-> Some(provider), retry_count |-> 0,
         current_body |-> Some(body),
         sent |-> <<OpenAiRequest(provider, body)>>, received |-> <<>>]
    ELSE IF provider.api_type = "Claude" THEN
        [state |-> "sent", provider |-> Some(provider), retry_count |-> 0,
         current_body |-> None,
         sent |-> <<ClaudeRequest(provider, model, messages)>>, received |-> <<>>]
    ELSE IF IsSome(provider.api_key) THEN
        [state |-> "sent", provider |-> Some(provider), retry_count |-> 0,
         current_body |-> None,
         sent |-> <<GeminiRequest(provider, model, messages, json_mode)>>,
         received |-> <<>>]
    ELSE
        [state |-> "failed", provider |-> Some(provider), retry_count |-> 0,
         current_body |-> None, sent |-> <<>>, received |-> <<>>]

\* ShouldRetry without the retry_count guard
ShouldRetryUnbounded(h, resp) ==
    /\ Unwrap(h.provider).api_type \in {"OpenAI", "Ollama"}
    /\ resp.status = "4xx"
    /\ resp.rf
    /\ resp.js

\* ShouldRetry that looks for response_format only
ShouldRetryOnResponseFormat(h, resp) ==
    /\ Unwrap(h.provider).api_type \in {"OpenAI", "Ollama"}
    /\ resp.status = "4xx"
    /\ h.retry_count = 0
    /\ resp.rf

\* the condition of the retry branch of the OpenAI-compatible loop
ShouldRetry(h, resp) ==
    /\ Unwrap(h.provider).api_type \in {"OpenAI", "Ollama"}
    /\ resp.status = "4xx"
    /\ h.retry_count = 0
    /\ resp.rf
    /\ resp.js

\* the retry branch: response_format is removed from the body, which is
\* posted again
RetryCall(h, resp) ==
    LET body == [Unwrap(h.current_body) EXCEPT !.response_format = None] IN
    [h EXCEPT !.current_body = Some(body),
              !.retry_count = h.retry_count + 1,
              !.sent = Append(h.sent, OpenAiRequest(Unwrap(h.provider), body)),
              !.received = Append(h.received, resp)]

\* IsSuccess that does not look for the content string of the envelope
IsSuccessOnStatus(resp) == resp.status = "2xx"

\* the call returns Ok(content) on this response
IsSuccess(resp) == resp.status = "2xx" /\ resp.text

\* the call returns Err on this response
IsFailure(h, resp) == ~IsSuccess(resp) /\ ~ShouldRetry(h, resp)

ReturnCall(h, resp) == [h EXCEPT !.state = "returned", !.received = Append(h.received, resp)]

FailCall(h, resp) == [h EXCEPT !.state = "failed", !.received = Append(h.received, resp)]

\* the anyhow error of a failed call
CallError(h) ==
    LET p == Unwrap(h.provider) IN
    IF h.sent = <<>> THEN [kind |-> "GeminiApiKeyRequired", detail |-> <<>>]
    ELSE LET r == h.received[Len(h.received)] IN
         IF r.status = "neterr" THEN [kind |-> "Transport", detail |-> <<>>]
         ELSE IF r.status = "2xx" THEN [kind |-> "ParseContent", detail |-> <<>>]
         ELSE [kind |-> "ApiError", detail |-> <<p.api_type>>]

----------------------------------------------------------------------------
(* Replies and their decoding *)

\* JSON values a reply may hold: a list of {id, translated_text} objects,
\* an object {remove_ids: [...]}, or text that is no JSON at all.  The text
\* of a payload starts and ends with a character that is neither
\* whitespace nor a backquote.
TranslationsPayload(items) == [kind |-> "translations", items |-> items, remove_ids |-> <<>>]
FilterPayload(ids) == [kind |-> "filter", items |-> <<>>, remove_ids |-> ids]
JunkPayload == [kind |-> "junk", items |-> <<>>, remove_ids |-> <<>>]

JsonReply(pre, payload, post) == [pre |-> pre, payload |-> payload, post |-> post]

\* CleanJsonReply that strips the plain fence only
CleanJsonReplyPlainFenceOnly(r) ==
    [pre |-> TrimStart(TrimStartMatches(TrimStart(r.pre), Fence)),
     payload |-> r.payload,
     post |-> TrimEnd(TrimEndMatches(TrimEnd(r.post), Fence))]

\* .trim().trim_start_matches(fence json).trim_start_matches(fence)
\* .trim_end_matches(fence).trim() of a reply that holds a payload
CleanJsonReply(r) ==
    [pre |-> TrimStart(TrimStartMatches(TrimStartMatches(TrimStart(r.pre), FenceJson), Fence)),
     payload |-> r.payload,
     post |-> TrimEnd(TrimEndMatches(TrimEnd(r.post), Fence))]

\* serde_json::from_str::<T> succeeds on the cleaned reply: nothing but the
\* value is left and the value has the shape of T
ParsesAs(clean, kind) ==
    clean.pre = <<>> /\ clean.post = <<>> /\ clean.payload.kind = kind

\* BatchItem list of a chunk or batch: window-local ids 0..len-1
BatchItems(texts) == [i \in 1..Len(texts) |-> [id |-> i - 1, text |-> texts[i]]]

\* DecodeTranslations whose fallback fabricates empty translations
DecodeTranslationsEmptyFallback(reply, batch_items) ==
    LET clean == CleanJsonReply(reply) IN
    IF ParsesAs(clean, "translations") THEN clean.payload.items
    ELSE [i \in 1..Len(batch_items) |->
            [id |-> batch_items[i].id, translated_text |-> <<>>]]

\* the decode of the Translate reply, with the identity fallback
DecodeTranslations(reply, batch_items) ==
    LET clean == CleanJsonReply(reply) IN
    IF ParsesAs(clean, "translations") THEN clean.payload.items
    ELSE [i \in 1..Len(batch_items) |->
            [id |-> batch_items[i].id, translated_text |-> batch_items[i].text]]

\* FindTranslation that takes the entry at the position of the id
FindTranslationByPosition(translations, id) ==
    IF id + 1 <= Len(translations)
    THEN Some(translations[id + 1].translated_text)
    ELSE None

\* FindTranslation that takes the last entry with the id
FindTranslationLast(translations, id) ==
    LET hits == {j \in 1..Len(translations) : translations[j].id = id} IN
    IF hits = {} THEN None
    ELSE Some(translations[CHOOSE j \in hits : \A k \in hits : k <= j].translated_text)

\* translations.iter().find(|t| t.id == id), as an Option of the text
RECURSIVE FindTranslation(_, _)
FindTranslation(translations, id) ==
    IF translations = <<>> THEN None
    ELSE IF Head(translations).id = id THEN Some(Head(translations).translated_text)
    ELSE FindTranslation(Tail(translations), id)

\* MapTranslations that walks the decoded response instead of the chunk
MapTranslationsByResponse(ch, translations) ==
    LET ts == SelectSeq(translations, LAMBDA t : t.id < Len(ch)) IN
    [j \in 1..Len(ts) |->
        [start |-> ch[ts[j].id + 1].start, end |-> ch[ts[j].id + 1].end,
         original |-> ch[ts[j].id + 1].text, translated |-> ts[j].translated_text]]

\* the mapping of the translations back to the segments of the chunk
MapTranslations(ch, translations) ==
    [i \in 1..Len(ch) |->
        [start |-> ch[i].start, end |-> ch[i].end, original |-> ch[i].text,
         translated |-> UnwrapOr(FindTranslation(translations, i - 1), ch[i].text)]]

\* the cleaning of the Edit reply
CleanEditReply(response_text) ==
    Trim(TrimEndMatches(TrimStartMatches(Trim(response_text), Fence), Fence))

\* EditMap that walks the reply lines instead of the batch
EditMapByLines(batch, refined_lines) ==
    [i \in 1..Len(refined_lines) |->
        IF i <= Len(batch)
        THEN [batch[i] EXCEPT !.translated = Trim(refined_lines[i])]
        ELSE [start |-> 0, end |-> 0, original |-> <<>>,
              translated |-> Trim(refined_lines[i])]]

\* EditMap that leaves a position without a line empty
EditMapEmptyOnMissing(batch, refined_lines) ==
    [i \in 1..Len(batch) |->
        [batch[i] EXCEPT !.translated =
            IF i - 1 < Len(refined_lines) THEN Trim(refined_lines[i])
            ELSE <<>>]]

\* the map-back loop of edit_batch
EditMap(batch, refined_lines) ==
    [i \in 1..Len(batch) |->
        [batch[i] EXCEPT !.translated =
            IF i - 1 < Len(refined_lines) THEN Trim(refined_lines[i])
            ELSE batch[i].translated]]

\* the ids of a remove_ids list, collected into the HashSet
RemoveSet(remove_ids) == {remove_ids[j] : j \in 1..Len(remove_ids)}

\* KeepFrom that inserts every kept item at the front
RECURSIVE KeepFromReversed(_, _, _)
KeepFromReversed(batch, remove_set, i) ==
    IF i > Len(batch) THEN <<>>
    ELSE IF (i - 1) \notin remove_set
         THEN KeepFromReversed(batch, remove_set, i + 1) \o <<batch[i]>>
         ELSE KeepFromReversed(batch, remove_set, i + 1)

\* KeepFrom that counts the positions from one
RECURSIVE KeepFromOneBased(_, _, _)
KeepFromOneBased(batch, remove_set, i) ==
    IF i > Len(batch) THEN <<>>
    ELSE IF i \notin remove_set
         THEN <<batch[i]>> \o KeepFromOneBased(batch, remove_set, i + 1)
         ELSE KeepFromOneBased(batch, remove_set, i + 1)

\* the loop that keeps the items whose position is not in remove_set
RECURSIVE KeepFrom(_, _, _)
KeepFrom(batch, remove_set, i) ==
    IF i > Len(batch) THEN <<>>
    ELSE IF (i - 1) \notin remove_set
         THEN <<batch[i]>> \o KeepFrom(batch, remove_set, i + 1)
         ELSE KeepFrom(batch, remove_set, i + 1)

\* FilterApply that drops the window when the reply does not parse
FilterApplyFailClosed(batch, reply) ==
    LET clean == CleanJsonReply(reply) IN
    IF ParsesAs(clean, "filter")
    THEN KeepFrom(batch, RemoveSet(clean.payload.remove_ids), 1)
    ELSE <<>>

\* the decode of the Filter reply and its application, failing open
FilterApply(batch, reply) ==
    LET clean == CleanJsonReply(reply) IN
    IF ParsesAs(clean, "filter")
    THEN KeepFrom(batch, RemoveSet(clean.payload.remove_ids), 1)
    ELSE batch

\* what surrounds the JSON value of a reply
Wrappers ==
    { [pre |-> <<>>, post |-> <<>>],
      [pre |-> FenceJson \o <<"\n">>, post |-> <<"\n">> \o Fence],
      [pre |-> <<"#", " ">>, post |-> <<>>] }

TrTexts == {<<"x">>, <<"y">>}

\* the texts the platform translate capability may return: those of a
\* provider and a text of two lines
BridgeTexts == TrTexts \cup {<<"x", "\n", "y">>}

\* the entries of a reply to a window of n items: the ids of the window and
\* one id beyond it
TranslationEntries(n) == [id : 0..n, translated_text : TrTexts]

\* the replies a provider may give to the Translate request of n items
TranslateReplies(n) ==
    {JsonReply(w.pre, p, w.post) :
        w \in Wrappers,
        p \in {JunkPayload, FilterPayload(<<0>>)}
              \cup {TranslationsPayload(l) : l \in SeqsOf(TranslationEntries(n), 0, MaxReplyLen)}}

\* the replies a provider may give to the Filter request of n items
FilterReplies(n) ==
    {JsonReply(w.pre, p, w.post) :
        w \in Wrappers,
        p \in {JunkPayload, TranslationsPayload(<<>>)}
              \cup {FilterPayload(l) : l \in SeqsOf(0..n, 0, MaxReplyLen)}}

EditLineTexts == {<<"e">>, <<" ", "f">>}

\* the replies a provider may give to the Edit request of n lines: up to
\* n + 1 lines of text, bare or inside a code fence
EditReplies(n) ==
    {pre \o Join(ls, <<"\n">>) \o post :
        ls \in SeqsOf(EditLineTexts, 0, n + 1),
        pre \in {<<>>, Fence \o <<"\n">>},
        post \in {<<>>, <<"\n">> \o Fence}}

\* the replies a provider may give to the Summary request
SummaryReplies == {<<"s">>, <<" ", "t", "\n">>}

----------------------------------------------------------------------------
(* process_translation (src/src/translate/mod.rs) *)

Running == [status |-> "running", value |-> <<>>, error |-> None]
Ok(v) == [status |-> "ok", value |-> v, error |-> None]
Err(e) == [status |-> "err", value |-> <<>>, error |-> Some(e)]
Panicked == [status |-> "panic", value |-> <<>>, error |-> None]

ProviderNotFound(id) == [kind |-> "ProviderNotFound", detail |-> id]
DefaultProviderNotFound(id) == [kind |-> "DefaultProviderNotFound", detail |-> id]
BridgeError == [kind |-> "Bridge", detail |-> <<>>]

\* what the last returned stage decoded: whether the reply parsed, the
\* decoded list (translations, lines or remove_ids) and the batch before
NoLast == [stage |-> "none", parsed |-> FALSE, decoded |-> <<>>, before |-> <<>>]
NoBridge == [results |-> <<>>, invoked |-> <<>>]

IsLLM == cfg.engine.type = "LLM"

\* WindowSize with a default of one segment
WindowSizeDefaultOne == UnwrapOr(cfg.engine.window, 1)

\* window.unwrap_or(100)
WindowSize == UnwrapOr(cfg.engine.window, DefaultWindow)

\* index of the window being processed
WindowIndex == IF WindowSize > 0 THEN pos \div WindowSize ELSE 0

\* the chunk that segments.chunks(window_size) yields after p segments
TakeChunk(p) == SubSeq(segments, p + 1, Min(p + WindowSize, Len(segments)))

Texts(ch) == [i \in 1..Len(ch) |-> ch[i].text]
Translated(batch) == [i \in 1..Len(batch) |-> batch[i].translated]

TransModel == SplitModel(cfg.engine.model)
TransProvider == FindProvider(cfg.providers, TransModel[1])

Message(role, content) == [role |-> role, content |-> content]

Init ==
    /\ \/ /\ segments \in {Transcript(n) : n \in 0..MaxSegs}
          /\ cfg \in Configs
       \/ /\ segments = TranscriptWithSilence
          /\ cfg \in {c \in Configs : c.engine.type = "Apple"}
    /\ pc = "start"
    /\ pos = 0
    /\ chunk = <<>>
    /\ mapped_results = <<>>
    /\ translated_segments = <<>>
    /\ summary = Sentinel
    /\ progress = 0
    /\ http = HttpIdle
    /\ bridge = NoBridge
    /\ last = NoLast
    /\ calls = <<>>
    /\ result = Running

\* the prologue: the translation client, the window size, the first chunk
Begin ==
    /\ pc = "start"
    /\ IF IsLLM /\ TransProvider = None THEN
           /\ pc' = "error"
           /\ result' = Err(ProviderNotFound(TransModel[1]))
           /\ chunk' = chunk
       ELSE IF WindowSize = 0 THEN
           /\ pc' = "panic"
           /\ result' = Panicked
           /\ chunk' = chunk
       ELSE IF segments = <<>> THEN
           /\ pc' = "done"
           /\ result' = Ok(translated_segments)
           /\ chunk' = chunk
       ELSE
           /\ pc' = "translate"
           /\ result' = result
           /\ chunk' = TakeChunk(0)
    /\ UNCHANGED <<segments, cfg, pos, mapped_results, translated_segments,
                   summary, progress, http, bridge, last, calls>>

\* a chat_completion call of a stage up to its first await
IssueCall(stage, provider, model, messages, json_mode, response_schema, waitpc) ==
    LET h == StartCall(provider, model, messages, json_mode, response_schema) IN
    /\ http' = h
    /\ calls' = Append(calls, [window |-> WindowIndex, stage |-> stage,
                               provider |-> provider.id, model |-> model])
    /\ IF h.state = "failed"
       THEN /\ pc' = IF waitpc = "client_wait" THEN "client_failed" ELSE "error"
            /\ result' = Err(CallError(h))
       ELSE /\ pc' = waitpc
            /\ result' = Running

WaitPcs == {"translate_wait", "edit_wait", "filter_wait", "summarize_wait", "client_wait"}

\* a non-2xx response with the signature of the rejected response format
\* arrives for the first request: the loop posts the stripped body
ClientRetry ==
    /\ pc \in WaitPcs
    /\ http.state = "sent"
    /\ \E resp \in ServerResponses :
        /\ ShouldRetry(http, resp)
        /\ http' = RetryCall(http, resp)
    /\ UNCHANGED <<segments, cfg, pc, pos, chunk, mapped_results, translated_segments,
                   summary, progress, bridge, last, calls, result>>

\* ClientFail where a failed Edit call is swallowed and the window goes on
\* with the unedited batch
ClientFailSkipsEdit ==
    /\ pc \in WaitPcs
    /\ http.state = "sent"
    /\ \E resp \in ServerResponses :
        /\ IsFailure(http, resp)
        /\ http' = FailCall(http, resp)
        /\ result' = IF pc = "edit_wait" THEN result
                     ELSE Err(CallError(FailCall(http, resp)))
    /\ pc' = IF pc = "client_wait" THEN "client_failed"
             ELSE IF pc = "edit_wait" THEN "filter" ELSE "error"
    /\ UNCHANGED <<segments, cfg, pos, chunk, mapped_results, translated_segments,
                   summary, progress, bridge, last, calls>>

\* the call fails; every call site propagates the error with the ? operator
ClientFail ==
    /\ pc \in WaitPcs
    /\ http.state = "sent"
    /\ \E resp \in ServerResponses :
        /\ IsFailure(http, resp)
        /\ http' = FailCall(http, resp)
        /\ result' = Err(CallError(FailCall(http, resp)))
    /\ pc' = IF pc = "client_wait" THEN "client_failed" ELSE "error"
    /\ UNCHANGED <<segments, cfg, pos, chunk, mapped_results, translated_segments,
                   summary, progress, bridge, last, calls>>

\* the 2xx response whose envelope holds the content
SuccessResponse == [status |-> "2xx", text |-> TRUE, rf |-> FALSE, js |-> FALSE]

\* TranslateCall whose prompt always carries the initial summary
TranslateCallInitialSummary ==
    /\ pc = "translate"
    /\ IsLLM
    /\ \E json_mode \in BOOLEAN :
        IssueCall("translate", Unwrap(TransProvider), TransModel[2],
                  << Message("system", [kind |-> "translate_system"]),
                     Message("user", [kind |-> "translate_user", summary |-> Sentinel,
                                      items |-> BatchItems(Texts(chunk))]) >>,
                  json_mode, None, "translate_wait")
    /\ last' = NoLast
    /\ UNCHANGED <<segments, cfg, pos, chunk, mapped_results, translated_segments,
                   summary, progress, bridge>>

\* 1. Translate Batch, LLM engine: the request
TranslateCall ==
    /\ pc = "translate"
    /\ IsLLM
    /\ \E json_mode \in BOOLEAN :
        IssueCall("translate", Unwrap(TransProvider), TransModel[2],
                  << Message("system", [kind |-> "translate_system"]),
                     Message("user", [kind |-> "translate_user", summary |-> summary,
                                      items |-> BatchItems(Texts(chunk))]) >>,
                  json_mode, None, "translate_wait")
    /\ last' = NoLast
    /\ UNCHANGED <<segments, cfg, pos, chunk, mapped_results, translated_segments,
                   summary, progress, bridge>>

\* TranslateReturn that asks again when the reply does not parse
TranslateReturnAsksAgain ==
    /\ pc = "translate_wait"
    /\ http.state = "sent"
    /\ \E reply \in TranslateReplies(Len(chunk)) :
        LET translations == DecodeTranslations(reply, BatchItems(Texts(chunk))) IN
        IF ParsesAs(CleanJsonReply(reply), "translations")
        THEN /\ mapped_results' = MapTranslations(chunk, translations)
             /\ last' = [stage |-> "translate", parsed |-> TRUE,
                         decoded |-> translations, before |-> <<>>]
             /\ pc' = "edit"
        ELSE /\ pc' = "translate"
             /\ UNCHANGED <<mapped_results, last>>
    /\ http' = ReturnCall(http, SuccessResponse)
    /\ UNCHANGED <<segments, cfg, pos, chunk, translated_segments, summary,
                   progress, bridge, calls, result>>

\* 1. Translate Batch, LLM engine: the reply is decoded and mapped back
TranslateReturn ==
    /\ pc = "translate_wait"
    /\ http.state = "sent"
    /\ \E reply \in TranslateReplies(Len(chunk)) :
        LET translations == DecodeTranslations(reply, BatchItems(Texts(chunk))) IN
        /\ mapped_results' = MapTranslations(chunk, translations)
        /\ last' = [stage |-> "translate",
                    parsed |-> ParsesAs(CleanJsonReply(reply), "translations"),
                    decoded |-> translations, before |-> <<>>]
    /\ http' = ReturnCall(http, SuccessResponse)
    /\ pc' = "edit"
    /\ UNCHANGED <<segments, cfg, pos, chunk, translated_segments, summary,
                   progress, bridge, calls, result>>

\* AppleTranslateItem that keeps the source text of an item the bridge
\* failed on
AppleTranslateItemIdentityOnError ==
    /\ pc = "translate"
    /\ ~IsLLM
    /\ LET i == Len(bridge.results) + 1
           item == BatchItems(Texts(chunk))[i]
           Finish(b) ==
               IF i = Len(chunk)
               THEN /\ mapped_results' = MapTranslations(chunk, b.results)
                    /\ last' = [stage |-> "translate", parsed |-> TRUE,
                                decoded |-> b.results, before |-> <<>>]
                    /\ pc' = "edit"
                    /\ bridge' = b
               ELSE /\ bridge' = b
                    /\ UNCHANGED <<mapped_results, last, pc>>
       IN
       IF item.text = <<>>
       THEN /\ Finish([bridge EXCEPT !.results =
                          Append(@, [id |-> item.id, translated_text |-> <<>>])])
            /\ result' = result
       ELSE \E t \in BridgeTexts \cup {item.text} :
               /\ Finish([results |-> Append(bridge.results,
                                             [id |-> item.id, translated_text |-> t]),
                          invoked |-> Append(bridge.invoked, item.text)])
               /\ result' = result
    /\ UNCHANGED <<segments, cfg, pos, chunk, translated_segments, summary,
                   progress, http, calls>>

\* AppleTranslateItem without the short-circuit for an empty text
AppleTranslateItemAlwaysInvokes ==
    /\ pc = "translate"
    /\ ~IsLLM
    /\ LET i == Len(bridge.results) + 1
           item == BatchItems(Texts(chunk))[i]
           Finish(b) ==
               IF i = Len(chunk)
               THEN /\ mapped_results' = MapTranslations(chunk, b.results)
                    /\ last' = [stage |-> "translate", parsed |-> TRUE,
                                decoded |-> b.results, before |-> <<>>]
                    /\ pc' = "edit"
                    /\ bridge' = b
               ELSE /\ bridge' = b
                    /\ UNCHANGED <<mapped_results, last, pc>>
       IN
       \/ \E t \in BridgeTexts :
            /\ Finish([results |-> Append(bridge.results,
                                          [id |-> item.id, translated_text |-> t]),
                       invoked |-> Append(bridge.invoked, item.text)])
            /\ result' = result
       \/ /\ bridge' = [bridge EXCEPT !.invoked = Append(@, item.text)]
          /\ pc' = "error"
          /\ result' = Err(BridgeError)
          /\ UNCHANGED <<mapped_results, last>>
    /\ UNCHANGED <<segments, cfg, pos, chunk, translated_segments, summary,
                   progress, http, calls>>

\* 1. Translate Batch, Apple engine: one item of apple::translate_batch,
\* and the mapping once the last item is done
AppleTranslateItem ==
    /\ pc = "translate"
    /\ ~IsLLM
    /\ LET i == Len(bridge.results) + 1
           item == BatchItems(Texts(chunk))[i]
           Finish(b) ==
               IF i = Len(chunk)
               THEN /\ mapped_results' = MapTranslations(chunk, b.results)
                    /\ last' = [stage |-> "translate", parsed |-> TRUE,
                                decoded |-> b.results, before |-> <<>>]
                    /\ pc' = "edit"
                    /\ bridge' = b
               ELSE /\ bridge' = b
                    /\ UNCHANGED <<mapped_results, last, pc>>
       IN
       IF item.text = <<>> THEN
           /\ Finish([bridge EXCEPT !.results =
                  Append(@, [id |-> item.id, translated_text |-> <<>>])])
           /\ result' = result
       ELSE
           \/ \E t \in BridgeTexts :
                /\ Finish([results |-> Append(bridge.results,
                                              [id |-> item.id, translated_text |-> t]),
                           invoked |-> Append(bridge.invoked, item.text)])
                /\ result' = result
           \/ /\ bridge' = [bridge EXCEPT !.invoked = Append(@, item.text)]
              /\ pc' = "error"
              /\ result' = Err(BridgeError)
              /\ UNCHANGED <<mapped_results, last>>
    /\ UNCHANGED <<segments, cfg, pos, chunk, translated_segments, summary,
                   progress, http, calls>>

\* the edit stage is configured: Some(edit) with non-empty instructions
EditEnabled ==
    /\ IsSome(cfg.edit)
    /\ IsSome(Unwrap(cfg.edit).instructions)
    /\ Unwrap(Unwrap(cfg.edit).instructions) # <<>>

\* the filter stage is configured: Some(edit) with a non-empty filter list
FilterEnabled ==
    /\ IsSome(cfg.edit)
    /\ IsSome(Unwrap(cfg.edit).filters)
    /\ Unwrap(Unwrap(cfg.edit).filters) # <<>>

EditModel == SplitModel(Unwrap(cfg.edit).default_model)
EditProvider == FindProvider(cfg.providers, EditModel[1])

\* 2. Edit Batch is skipped
EditSkip ==
    /\ pc = "edit"
    /\ ~EditEnabled
    /\ pc' = "filter"
    /\ UNCHANGED <<segments, cfg, pos, chunk, mapped_results, translated_segments,
                   summary, progress, http, bridge, last, calls, result>>

\* EditCall that sends the source texts of the chunk instead of the
\* translated texts of the batch
EditCallOnSource ==
    /\ pc = "edit"
    /\ last' = NoLast
    /\ EditEnabled
    /\ IF EditProvider = None THEN
           /\ pc' = "error"
           /\ result' = Err(ProviderNotFound(EditModel[1]))
           /\ UNCHANGED <<http, calls>>
       ELSE
           IssueCall("edit", Unwrap(EditProvider), EditModel[2],
                     << Message("system",
                                [kind |-> "edit_system",
                                 instructions |->
                                     Join(Unwrap(Unwrap(cfg.edit).instructions), <<"\n">>)]),
                        Message("user",
                                [kind |-> "edit_user",
                                 batch_text |-> Join(Texts(chunk), <<"\n">>)]) >>,
                     FALSE, None, "edit_wait")
    /\ UNCHANGED <<segments, cfg, pos, chunk, mapped_results, translated_segments,
                   summary, progress, bridge>>

\* 2. Edit Batch: edit_batch up to its await
EditCall ==
    /\ pc = "edit"
    /\ last' = NoLast
    /\ EditEnabled
    /\ IF EditProvider = None THEN
           /\ pc' = "error"
           /\ result' = Err(ProviderNotFound(EditModel[1]))
           /\ UNCHANGED <<http, calls>>
       ELSE
           IssueCall("edit", Unwrap(EditProvider), EditModel[2],
                     << Message("system",
                                [kind |-> "edit_system",
                                 instructions |->
                                     Join(Unwrap(Unwrap(cfg.edit).instructions), <<"\n">>)]),
                        Message("user",
                                [kind |-> "edit_user",
                                 batch_text |-> Join(Translated(mapped_results), <<"\n">>)]) >>,
                     FALSE, None, "edit_wait")
    /\ UNCHANGED <<segments, cfg, pos, chunk, mapped_results, translated_segments,
                   summary, progress, bridge>>

\* 2. Edit Batch: the reply is cleaned, split into lines and mapped back
EditReturn ==
    /\ pc = "edit_wait"
    /\ http.state = "sent"
    /\ \E response_text \in EditReplies(Len(mapped_results)) :
        LET refined_lines == Lines(CleanEditReply(response_text)) IN
        /\ mapped_results' = EditMap(mapped_results, refined_lines)
        /\ last' = [stage |-> "edit", parsed |-> TRUE,
                    decoded |-> refined_lines, before |-> mapped_results]
    /\ http' = ReturnCall(http, SuccessResponse)
    /\ pc' = "filter"
    /\ UNCHANGED <<segments, cfg, pos, chunk, translated_segments, summary,
                   progress, bridge, calls, result>>

Filters == Unwrap(Unwrap(cfg.edit).filters)

\* FilterModel that reads the override of the last condition
FilterModelOfLastCondition ==
    SplitModel(UnwrapOr(Filters[Len(Filters)].llm, Unwrap(cfg.edit).default_model))

\* filters[0].llm.as_deref().unwrap_or(default_llm_str), split
FilterModel == SplitModel(UnwrapOr(Filters[1].llm, Unwrap(cfg.edit).default_model))

\* the provider of the default model of the edit stage
FilterDefaultProvider ==
    FindProvider(cfg.providers, SplitModel(Unwrap(cfg.edit).default_model)[1])

\* FilterProvider without the fallback to the default provider
FilterProviderOfOverrideOnly == FindProvider(cfg.providers, FilterModel[1])

\* the provider f_client is built on: the one of the filter model, else the
\* default provider, else none
FilterProvider ==
    IF FindProvider(cfg.providers, FilterModel[1]) # None
    THEN FindProvider(cfg.providers, FilterModel[1])
    ELSE FilterDefaultProvider

\* the lines of filter_instructions
FilterInstructions ==
    [i \in 1..Len(Filters) |->
        [n |-> i, prompt |-> Filters[i].prompt,
         threshold |-> UnwrapOr(Filters[i].threshold, "0.7")]]

FilterSchema == "remove_ids_schema"

\* 3. Filter Batch is skipped
FilterSkip ==
    /\ pc = "filter"
    /\ ~FilterEnabled
    /\ pc' = "summarize"
    /\ UNCHANGED <<segments, cfg, pos, chunk, mapped_results, translated_segments,
                   summary, progress, http, bridge, last, calls, result>>

\* 3. Filter Batch: filter_batch up to its await
FilterCall ==
    /\ pc = "filter"
    /\ last' = NoLast
    /\ FilterEnabled
    /\ IF FilterProvider = None THEN
           /\ pc' = "error"
           /\ result' = Err(DefaultProviderNotFound(
                                SplitModel(Unwrap(cfg.edit).default_model)[1]))
           /\ UNCHANGED <<http, calls>>
       ELSE
           IssueCall("filter", Unwrap(FilterProvider), FilterModel[2],
                     << Message("user",
                                [kind |-> "filter_user",
                                 instructions |-> FilterInstructions,
                                 items |-> BatchItems(Translated(mapped_results))]) >>,
                     TRUE, Some(FilterSchema), "filter_wait")
    /\ UNCHANGED <<segments, cfg, pos, chunk, mapped_results, translated_segments,
                   summary, progress, bridge>>

\* 3. Filter Batch: the reply is decoded and the marked items are dropped
FilterReturn ==
    /\ pc = "filter_wait"
    /\ http.state = "sent"
    /\ \E reply \in FilterReplies(Len(mapped_results)) :
        /\ mapped_results' = FilterApply(mapped_results, reply)
        /\ last' = [stage |-> "filter",
                    parsed |-> ParsesAs(CleanJsonReply(reply), "filter"),
                    decoded |-> IF ParsesAs(CleanJsonReply(reply), "filter")
                                THEN CleanJsonReply(reply).payload.remove_ids ELSE <<>>,
                    before |-> mapped_results]
    /\ http' = ReturnCall(http, SuccessResponse)
    /\ pc' = "summarize"
    /\ UNCHANGED <<segments, cfg, pos, chunk, translated_segments, summary,
                   progress, bridge, calls, result>>

\* FinishWindow that returns after the first window
FinishWindowReturnsEarly ==
    /\ translated_segments' = translated_segments \o mapped_results
    /\ progress' = progress + Len(chunk)
    /\ pos' = pos + Len(chunk)
    /\ mapped_results' = <<>>
    /\ bridge' = NoBridge
    /\ last' = NoLast
    /\ pc' = "done"
    /\ chunk' = <<>>
    /\ result' = Ok(translated_segments \o mapped_results)

\* FinishWindow that advances the progress by the segments it appends
FinishWindowCountsKept ==
    /\ translated_segments' = translated_segments \o mapped_results
    /\ progress' = progress + Len(mapped_results)
    /\ pos' = pos + Len(chunk)
    /\ mapped_results' = <<>>
    /\ bridge' = NoBridge
    /\ last' = NoLast
    /\ IF pos + Len(chunk) < Len(segments)
       THEN /\ pc' = "translate"
            /\ chunk' = TakeChunk(pos + Len(chunk))
            /\ result' = result
       ELSE /\ pc' = "done"
            /\ chunk' = <<>>
            /\ result' = Ok(translated_segments \o mapped_results)

\* the end of the loop body: the window is appended to the output, the
\* progress bar advances and the next chunk, if any, is taken
FinishWindow ==
    /\ translated_segments' = translated_segments \o mapped_results
    /\ progress' = progress + Len(chunk)
    /\ pos' = pos + Len(chunk)
    /\ mapped_results' = <<>>
    /\ bridge' = NoBridge
    /\ last' = NoLast
    /\ IF pos + Len(chunk) < Len(segments)
       THEN /\ pc' = "translate"
            /\ chunk' = TakeChunk(pos + Len(chunk))
            /\ result' = result
       ELSE /\ pc' = "done"
            /\ chunk' = <<>>
            /\ result' = Ok(translated_segments \o mapped_results)

\* SummaryEnabled without the test for an empty batch
SummaryEnabledOnEmpty == IsLLM

\* the summary is updated for the LLM engine and a non-empty window only
SummaryEnabled == IsLLM /\ mapped_results # <<>>

\* SummarySkip that puts the summary back to its initial value
SummarySkipResets ==
    /\ pc = "summarize"
    /\ ~SummaryEnabled
    /\ FinishWindow
    /\ summary' = Sentinel
    /\ UNCHANGED <<segments, cfg, http, calls>>

\* 4. Update Summary is skipped
SummarySkip ==
    /\ pc = "summarize"
    /\ ~SummaryEnabled
    /\ FinishWindow
    /\ UNCHANGED <<segments, cfg, summary, http, calls>>

\* 4. Update Summary: update_summary up to its await
SummaryCall ==
    /\ pc = "summarize"
    /\ last' = NoLast
    /\ SummaryEnabled
    /\ IssueCall("summarize", Unwrap(TransProvider), TransModel[2],
                 << Message("user",
                            [kind |-> "summary_user", old_summary |-> summary,
                             new_text |-> Join(Translated(mapped_results), <<" ">>)]) >>,
                 FALSE, None, "summarize_wait")
    /\ UNCHANGED <<segments, cfg, pos, chunk, mapped_results, translated_segments,
                   summary, progress, bridge>>

\* 4. Update Summary: the trimmed reply becomes the summary
SummaryReturn ==
    /\ pc = "summarize_wait"
    /\ http.state = "sent"
    /\ \E reply \in SummaryReplies : summary' = Trim(reply)
    /\ http' = ReturnCall(http, SuccessResponse)
    /\ FinishWindow
    /\ UNCHANGED <<segments, cfg, calls>>

Next ==
    \/ Begin
    \/ TranslateCall
    \/ TranslateReturn
    \/ AppleTranslateItem
    \/ EditSkip
    \/ EditCall
    \/ EditReturn
    \/ FilterSkip
    \/ FilterCall
    \/ FilterReturn
    \/ SummarySkip
    \/ SummaryCall
    \/ SummaryReturn
    \/ ClientRetry
    \/ ClientFail

Spec == Init /\ [][Next]_vars

\* every await of the run completes: a step of the run that can be taken
\* is eventually taken
FairSpec == Spec /\ WF_vars(Next)

TypeOK ==
    /\ pc \in {"start", "translate", "translate_wait", "edit", "edit_wait", "filter",
               "filter_wait", "summarize", "summarize_wait", "done", "error", "panic",
               "client_idle", "client_wait", "client_failed", "srt_idle", "srt_written"}
    /\ pos \in 0..Len(segments)
    /\ progress \in Nat

----------------------------------------------------------------------------
(* A caller of one LlmClient: chat_completion for every provider            *)
(* configuration and every json_mode / response_schema argument             *)

AllProviders ==
    {Provider(<<"p">>, t, j, k, u) :
        t \in ApiTypes, j \in JsonModeTypes,
        k \in {None, Some(<<"k">>)}, u \in {None, Some(<<"u", "/">>)}}

ClientMessages ==
    << Message("system", [kind |-> "client_system"]),
       Message("user", [kind |-> "client_user"]) >>

InitClient ==
    /\ segments = <<>>
    /\ cfg \in {[engine |-> [type |-> "Client", model |-> <<"p", "/", "m">>, window |-> None],
                 edit |-> None, providers |-> <<p>>] : p \in AllProviders}
    /\ pc = "client_idle"
    /\ pos = 0
    /\ chunk = <<>>
    /\ mapped_results = <<>>
    /\ translated_segments = <<>>
    /\ summary = Sentinel
    /\ progress = 0
    /\ http = HttpIdle
    /\ bridge = NoBridge
    /\ last = NoLast
    /\ calls = <<>>
    /\ result = Running

\* ClientCall on a client that keeps its retry counter between calls
ClientCallSharesRetryCount ==
    /\ pc \in {"client_idle", "client_failed"}
    /\ Len(calls) < MaxCalls
    /\ \E json_mode \in BOOLEAN, response_schema \in {None, Some(FilterSchema)} :
        LET h0 == StartCall(cfg.providers[1], TransModel[2], ClientMessages,
                            json_mode, response_schema)
            h == IF h0.state = "sent"
                 THEN [h0 EXCEPT !.retry_count = http.retry_count] ELSE h0
        IN
        /\ http' = h
        /\ calls' = Append(calls, [window |-> WindowIndex, stage |-> "client",
                                   provider |-> cfg.providers[1].id,
                                   model |-> TransModel[2]])
        /\ IF h.state = "failed"
           THEN pc' = "client_failed" /\ result' = Err(CallError(h))
           ELSE pc' = "client_wait" /\ result' = Running
        /\ last' = [stage |-> "client", parsed |-> json_mode,
                    decoded |-> response_schema, before |-> <<http.retry_count>>]
    /\ UNCHANGED <<segments, cfg, pos, chunk, mapped_results, translated_segments,
                   summary, progress, bridge>>

\* the caller starts a chat_completion call; last keeps the arguments of
\* the call and the retry counter the call before it ended with
ClientCall ==
    /\ pc \in {"client_idle", "client_failed"}
    /\ Len(calls) < MaxCalls
    /\ \E json_mode \in BOOLEAN, response_schema \in {None, Some(FilterSchema)} :
        /\ IssueCall("client", cfg.providers[1], TransModel[2], ClientMessages,
                     json_mode, response_schema, "client_wait")
        /\ last' = [stage |-> "client", parsed |-> json_mode,
                    decoded |-> response_schema, before |-> <<http.retry_count>>]
    /\ UNCHANGED <<segments, cfg, pos, chunk, mapped_results, translated_segments,
                   summary, progress, bridge>>

\* the call returns Ok(content)
ClientReturn ==
    /\ pc = "client_wait"
    /\ http.state = "sent"
    /\ \E resp \in ServerResponses :
        /\ IsSuccess(resp)
        /\ http' = ReturnCall(http, resp)
    /\ pc' = "client_idle"
    /\ result' = Ok(<<>>)
    /\ UNCHANGED <<segments, cfg, pos, chunk, mapped_results, translated_segments,
                   summary, progress, bridge, last, calls>>

NextClient ==
    \/ ClientCall
    \/ ClientReturn
    \/ ClientRetry
    \/ ClientFail

SpecClient == InitClient /\ [][NextClient]_vars

----------------------------------------------------------------------------
(* Properties *)

\* C1: immediately after Translate and immediately after Edit, before the
\* Filter reply is applied, the window's result holds exactly as many
\* segments as the input window, whatever the replies were.
C1_LengthPreserved ==
    pc \in {"edit", "edit_wait", "filter", "filter_wait"}
        => Len(mapped_results) = Len(chunk)

\* C1 witness: Edit has returned on a reply with more lines than the window
\* has segments.
C1_Witness ==
    /\ pc = "filter"
    /\ last.stage = "edit"
    /\ Len(last.decoded) > Len(chunk)
    /\ Len(mapped_results) = Len(chunk)

\* C2: after Translate, an item whose id does not occur in the decoded
\* response has translated = source text, and an item whose id occurs has
\* the text of a response entry with that id.
C2_IdentityFallback ==
    (pc = "edit" /\ last.stage = "translate") =>
        \A i \in 1..Len(chunk) :
            LET hits == {j \in 1..Len(last.decoded) : last.decoded[j].id = i - 1} IN
            /\ hits = {} => mapped_results[i].translated = chunk[i].text
            /\ hits # {} =>
                  \E j \in hits :
                      mapped_results[i].translated = last.decoded[j].translated_text

\* C2 witness: a parsed Translate reply of the LLM engine names the id of
\* the second item only, and the first item fell back to its source text.
C2_Witness ==
    /\ pc = "edit"
    /\ IsLLM
    /\ last.stage = "translate"
    /\ last.parsed
    /\ Len(chunk) = 2
    /\ Len(last.decoded) >= 1
    /\ \A j \in 1..Len(last.decoded) : last.decoded[j].id = 1
    /\ mapped_results[1].translated = chunk[1].text
    /\ mapped_results[2].translated # chunk[2].text

\* C3: when the Translate reply does not parse as the expected JSON list,
\* every segment of the window has translated = original, the run has not
\* failed and goes on to the next stage of the window.
C3_MalformedReplyIsIdentity ==
    (pc = "edit" /\ last.stage = "translate" /\ ~last.parsed) =>
        /\ Len(mapped_results) = Len(chunk)
        /\ \A i \in 1..Len(mapped_results) :
              /\ mapped_results[i].original = chunk[i].text
              /\ mapped_results[i].translated = mapped_results[i].original
        /\ result.status = "running"
        /\ ENABLED (EditSkip \/ EditCall)

\* C3 witness: the Translate reply of the second window did not parse.
C3_Witness ==
    /\ pc = "edit"
    /\ last.stage = "translate"
    /\ ~last.parsed
    /\ pos > 0
    /\ mapped_results[1].translated # <<>>

\* C4: the working result of a window never holds more segments than the
\* window, and the run output never holds more segments than the input
\* segments of the windows completed so far.
C4_NeverMoreThanInput ==
    /\ Len(mapped_results) <= Len(chunk)
    /\ Len(translated_segments) <= pos
    /\ pos <= Len(segments)

\* C4 witness: the run is done and Filter removed a segment.
C4_Witness ==
    /\ pc = "done"
    /\ Len(segments) = 2
    /\ Len(translated_segments) = 1

\* out is made of the segments of inp at strictly increasing positions,
\* each with the start, end and text of its input segment
IsOrderedSubsequence(out, inp) ==
    \E f \in [1..Len(out) -> 1..Len(inp)] :
        /\ \A j, k \in 1..Len(out) : j < k => f[j] < f[k]
        /\ \A j \in 1..Len(out) :
              /\ out[j].start = inp[f[j]].start
              /\ out[j].end = inp[f[j]].end
              /\ out[j].original = inp[f[j]].text

\* C5: every segment of the run output and of the working window carries
\* the start, end and original text of one input segment, and the segments
\* are in the order of their input segments.
C5_TimestampsPassThrough ==
    /\ IsOrderedSubsequence(translated_segments, SubSeq(segments, 1, pos))
    /\ IsOrderedSubsequence(mapped_results, chunk)

\* C5 witness: the run is done, Filter removed the first of two segments and
\* the second one was translated.
C5_Witness ==
    /\ pc = "done"
    /\ Len(segments) = 2
    /\ Len(translated_segments) = 1
    /\ translated_segments[1].start = segments[2].start
    /\ translated_segments[1].translated # translated_segments[1].original

\* C6: when the Filter reply does not decode as a remove_ids object, Filter
\* returns the window unchanged and the run has not failed.
C6_FilterFailsOpen ==
    (pc = "summarize" /\ last.stage = "filter" /\ ~last.parsed) =>
        /\ mapped_results = last.before
        /\ result.status = "running"

\* C6 witness: Filter has returned a window of two segments on a reply that
\* did not decode.
C6_Witness ==
    /\ pc = "summarize"
    /\ last.stage = "filter"
    /\ ~last.parsed
    /\ Len(mapped_results) = 2

\* the positions 1..n whose window-local id is not in R
KeptPositions(n, R) == {i \in 1..n : (i - 1) \notin R}

\* C7: when the Filter reply decodes to remove_ids = R, Filter returns
\* exactly the segments whose window-local position is not in R, in their
\* order; duplicates in R and ids outside the window remove nothing else.
C7_FilterRemovesExactlyR ==
    (pc = "summarize" /\ last.stage = "filter" /\ last.parsed) =>
        LET R == {last.decoded[j] : j \in 1..Len(last.decoded)}
            kept == KeptPositions(Len(last.before), R)
        IN
        /\ Len(mapped_results) = Cardinality(kept)
        /\ \A i \in kept :
              mapped_results[Cardinality({j \in kept : j <= i})] = last.before[i]

\* C7 witness: remove_ids names id 1 and an id outside a window of two
\* segments; only the second segment is gone.
C7_Witness ==
    /\ pc = "summarize"
    /\ last.stage = "filter"
    /\ last.parsed
    /\ Len(last.before) = 2
    /\ last.decoded = <<1, 2>>
    /\ mapped_results = <<last.before[1]>>

OnOpenAiPath(h) == IsSome(h.provider) /\ Unwrap(h.provider).api_type \in {"OpenAI", "Ollama"}

\* the response is a non-2xx whose error text mentions response_format and
\* json_schema
IsRejection(resp) == resp.status = "4xx" /\ resp.rf /\ resp.js

\* C8: a chat_completion call on the OpenAI-compatible path sends at most
\* two requests, retries at most once, and has failed once a second
\* response is a non-2xx, whatever its error text.
C8_AtMostOneRetry ==
    OnOpenAiPath(http) =>
        /\ Len(http.sent) <= 2
        /\ http.retry_count <= 1
        /\ (Len(http.received) >= 2 /\ http.received[2].status = "4xx")
              => http.state = "failed"

\* C8 witness: the second response again mentions response_format and
\* json_schema, and the call has failed after two requests.
C8_Witness ==
    /\ OnOpenAiPath(http)
    /\ http.state = "failed"
    /\ Len(http.sent) = 2
    /\ Len(http.received) = 2
    /\ IsRejection(http.received[2])

\* C9: the retried request of the OpenAI-compatible client carries neither
\* response_format nor format, and its model, messages and auth header are
\* those of the first request.
C9_RetryStripsJsonMode ==
    (OnOpenAiPath(http) /\ Len(http.sent) >= 2) =>
        /\ http.sent[2].body.response_format = None
        /\ http.sent[2].body.format = None
        /\ http.sent[2].body.model = http.sent[1].body.model
        /\ http.sent[2].body.messages = http.sent[1].body.messages
        /\ http.sent[2].auth = http.sent[1].auth

\* the first response of the call was the rejection that the
\* OpenAI-compatible loop answers with its retry
FirstWasRejection(h) ==
    OnOpenAiPath(h) /\ Len(h.received) >= 1 /\ IsRejection(h.received[1])

\* no stage of a window issued more than one call, and a run that failed
\* takes no further step
NoReissue ==
    /\ \A a, b \in 1..Len(calls) :
          (calls[a].window = calls[b].window /\ calls[a].stage = calls[b].stage) => a = b
    /\ pc = "error" => ~ENABLED Next

\* C10 as stated: a request is re-sent only after a first non-2xx response
\* that mentions response_format and json_schema; every other failed call
\* has sent exactly one request; no stage re-issues a failed call.
C10_ExactlyOneRequest ==
    /\ Len(http.sent) >= 2 => FirstWasRejection(http)
    /\ (http.state = "failed" /\ ~FirstWasRejection(http)) => Len(http.sent) = 1
    /\ NoReissue

\* C10 amended: as C10, but a failed call that was not retried has sent
\* one request, or none when it is a Gemini call whose provider has no api
\* key; a failed call that was retried has sent two.
C10_AtMostOneRequest ==
    /\ Len(http.sent) >= 2 => FirstWasRejection(http)
    /\ (http.state = "failed" /\ ~FirstWasRejection(http)) =>
          IF Unwrap(http.provider).api_type = "Gemini"
             /\ Unwrap(http.provider).api_key = None
          THEN Len(http.sent) = 0
          ELSE Len(http.sent) = 1
    /\ (http.state = "failed" /\ FirstWasRejection(http)) => Len(http.sent) = 2
    /\ NoReissue

\* C10 witness: the Filter call of a run went to the Gemini provider without
\* api key and failed before any request; the run has failed.
C10_Witness ==
    /\ pc = "error"
    /\ http.state = "failed"
    /\ Unwrap(http.provider).api_type = "Gemini"
    /\ http.sent = <<>>
    /\ Len(calls) >= 2
    /\ calls[Len(calls)].stage = "filter"

\* the content of the i-th message of the first request of call h, at the
\* place the vendor's body keeps it
SentContent(h, i) ==
    LET b == h.sent[1].body IN
    IF "messages" \in DOMAIN b THEN b.messages[i].content ELSE b.contents[i].parts

StageRank(s) ==
    CASE s = "translate" -> 1 [] s = "edit" -> 2 [] s = "filter" -> 3
      [] s = "summarize" -> 4 [] OTHER -> 0

\* the logged calls are in the order of their windows and, within a window,
\* in the order Translate, Edit, Filter, Summarize
CallsInOrder ==
    \A a, b \in 1..Len(calls) :
        a < b =>
            \/ calls[a].window < calls[b].window
            \/ /\ calls[a].window = calls[b].window
               /\ StageRank(calls[a].stage) < StageRank(calls[b].stage)

\* the batch the stage recorded in last returned
StageOutput ==
    CASE last.stage = "translate" -> MapTranslations(chunk, last.decoded)
      [] last.stage = "edit" -> EditMap(last.before, last.decoded)
      [] last.stage = "filter" ->
            IF last.parsed THEN KeepFrom(last.before, RemoveSet(last.decoded), 1)
            ELSE last.before
      [] OTHER -> <<>>

\* the stage that ran last before the given stage of a window
StageBefore(stage) ==
    IF stage = "summarize" /\ FilterEnabled THEN "filter"
    ELSE IF stage \in {"summarize", "filter"} /\ EditEnabled THEN "edit"
    ELSE "translate"

\* a step that issues a call does so when no call is in flight, for the
\* window that starts at the segments appended so far, after the stage
\* before it has returned and with that stage's output in its request
IssuesInTurn ==
    Len(calls') = Len(calls) + 1 =>
        LET c == calls'[Len(calls')] IN
        /\ http.state \in {"idle", "returned"}
        /\ c.window * WindowSize = pos
        /\ progress = pos
        /\ c.stage = "translate" =>
              /\ last.stage = "none"
              /\ mapped_results = <<>>
              /\ http'.sent # <<>> =>
                    SentContent(http', 2).items = BatchItems(Texts(chunk))
        /\ c.stage # "translate" =>
              /\ last.stage = StageBefore(c.stage)
              /\ mapped_results = StageOutput
              /\ IsLLM => \E a \in 1..Len(calls) :
                            calls[a].window = c.window /\ calls[a].stage = "translate"
        /\ (c.stage = "edit" /\ http'.sent # <<>>) =>
              SentContent(http', 2).batch_text = Join(Translated(StageOutput), <<"\n">>)
        /\ (c.stage = "filter" /\ http'.sent # <<>>) =>
              SentContent(http', 1).items = BatchItems(Translated(StageOutput))
        /\ (c.stage = "summarize" /\ http'.sent # <<>>) =>
              SentContent(http', 1).new_text = Join(Translated(StageOutput), <<" ">>)

\* C11: within a window the stage calls occur in the order Translate, Edit,
\* Filter, Summarize, each issued only after the call before it has returned
\* and carrying the output of the stage before it; no call of a later window
\* is issued before the window before it was summarized and appended.
C11_StagesInOrder == [](CallsInOrder) /\ [][IssuesInTurn]_vars

\* C11 witness: the second window's Translate call is in flight after the
\* four calls of the first window.
C11_Witness ==
    /\ pc = "translate_wait"
    /\ Len(calls) = 5
    /\ calls[4].stage = "summarize"
    /\ calls[5].window = 1
    /\ Len(translated_segments) = 1

\* the summary the requests in flight carry is the rolling summary, which
\* is the sentinel while no window is complete; the summary request carries
\* the window's batch as it stands after Edit and Filter
SummaryThreaded ==
    /\ pos = 0 => summary = Sentinel
    /\ (pc = "translate_wait" /\ http.sent # <<>>) =>
          SentContent(http, 2).summary = summary
    /\ (pc = "summarize_wait" /\ http.sent # <<>>) =>
          /\ SentContent(http, 1).old_summary = summary
          /\ SentContent(http, 1).new_text = Join(Translated(mapped_results), <<" ">>)
          /\ IsOrderedSubsequence(mapped_results, chunk)

\* the summary changes only when a summary update returns, to the trimmed
\* reply of that update, in the step that completes the window
SummaryRewrittenByUpdate ==
    summary' # summary =>
        /\ pc = "summarize_wait"
        /\ http.state = "sent"
        /\ http'.state = "returned"
        /\ pos' = pos + Len(chunk)
        /\ \E reply \in SummaryReplies : summary' = Trim(reply)

CompletedWindows ==
    IF WindowSize = 0 THEN 0 ELSE (pos + WindowSize - 1) \div WindowSize

\* the summary updates of window w that have returned, as positions of the
\* call log; a returned update has rewritten the summary
SummaryRewritesOf(w) ==
    {a \in 1..Len(calls) :
        /\ calls[a].stage = "summarize"
        /\ calls[a].window = w
        /\ (a < Len(calls) \/ http.state = "returned")}

SummaryRewrites == UNION {SummaryRewritesOf(w) : w \in 0..Len(segments)}

\* the positions of the output whose segment is an input segment of window w
ContributedBy(w) ==
    {j \in 1..Len(translated_segments) :
        \E i \in (w * WindowSize + 1)..Min((w + 1) * WindowSize, Len(segments)) :
            translated_segments[j].start = segments[i].start}

\* C13 as stated: the summary starts as the sentinel and has been rewritten
\* exactly once for each completed window.
C13_RewrittenOncePerWindow ==
    /\ SummaryRewrites = {} => summary = Sentinel
    /\ \A w \in 0..(CompletedWindows - 1) : Cardinality(SummaryRewritesOf(w)) = 1

\* C13 amended: the summary starts as the sentinel and has been rewritten at
\* most once for each completed window: exactly once for a window of the LLM
\* engine that contributed a segment to the output, and not at all for a
\* window that Filter emptied or that the Apple engine translated.
C13_RewrittenAtMostOncePerWindow ==
    /\ SummaryRewrites = {} => summary = Sentinel
    /\ \A a \in SummaryRewrites : calls[a].window < CompletedWindows
    /\ \A w \in 0..(CompletedWindows - 1) :
          IF IsLLM /\ ContributedBy(w) # {}
          THEN Cardinality(SummaryRewritesOf(w)) = 1
          ELSE SummaryRewritesOf(w) = {}

\* C13 witness: of two completed windows of the LLM engine the first was
\* emptied by Filter and has no summary update, the second has one.
C13_Witness ==
    /\ pc = "done"
    /\ IsLLM
    /\ CompletedWindows = 2
    /\ ContributedBy(0) = {}
    /\ SummaryRewritesOf(0) = {}
    /\ Cardinality(SummaryRewritesOf(1)) = 1
    /\ summary # Sentinel

\* the logged calls of a stage of window w
CallsOf(w, stage) ==
    {a \in 1..Len(calls) : calls[a].window = w /\ calls[a].stage = stage}

\* the translate stage of the window in progress has issued its call
PastTranslate ==
    pc \in {"translate_wait", "edit", "edit_wait", "filter", "filter_wait",
            "summarize", "summarize_wait"}

\* C14: with the LLM engine every window has exactly one Translate call and
\* at most one Edit, one Filter and one Summary call, whatever the number
\* of items of the window and of filter conditions; the one Filter request
\* enumerates every condition.
C14_OneCallPerStage ==
    IsLLM =>
        /\ \A w \in 0..Len(segments) :
              \A stage \in {"translate", "edit", "filter", "summarize"} :
                  Cardinality(CallsOf(w, stage)) <= 1
        /\ \A w \in 0..(CompletedWindows - 1) :
              Cardinality(CallsOf(w, "translate")) = 1
        /\ PastTranslate => Cardinality(CallsOf(WindowIndex, "translate")) = 1
        /\ (pc = "filter_wait" /\ http.sent # <<>>) =>
              /\ Len(SentContent(http, 1).instructions) = Len(Filters)
              /\ Len(SentContent(http, 1).items) = Len(mapped_results)

\* C14 witness: a window of two items with two filter conditions has issued
\* one Translate, one Filter and one Summary call.
C14_Witness ==
    /\ pc = "summarize_wait"
    /\ IsLLM
    /\ Len(chunk) = 2
    /\ FilterEnabled
    /\ Len(Filters) = 2
    /\ Len(calls) = 3
    /\ Cardinality(CallsOf(0, "translate")) = 1
    /\ Cardinality(CallsOf(0, "filter")) = 1
    /\ Cardinality(CallsOf(0, "summarize")) = 1

\* a provider id that the run configuration references is not configured:
\* the provider of the translate model or of the default model of the edit
\* stage
MissingProvider ==
    \/ IsLLM /\ TransProvider = None
    \/ IsSome(cfg.edit) /\ EditProvider = None

\* the run failed on a provider lookup
FailedOnProviderLookup ==
    /\ result.status = "err"
    /\ Unwrap(result.error).kind \in {"ProviderNotFound", "DefaultProviderNotFound"}

\* C15: when a referenced provider id is not configured a run over at least
\* one segment fails, and when it fails on the lookup no provider call and
\* no call of the translation backend has been issued.
C15_ConfigErrorBeforeAnyCall ==
    /\ (pc = "done" /\ segments # <<>>) => ~MissingProvider
    /\ FailedOnProviderLookup =>
          /\ calls = <<>>
          /\ bridge.invoked = <<>>
          /\ pos = 0

\* C16: once a provider call, the translation backend or a provider lookup
\* has failed, the run has returned an error and takes no further step: no
\* further call, no further window; the window that failed has contributed
\* no segment to the output.
C16_AbortsOnFirstError ==
    /\ (http.state = "failed" \/ result.status = "err") => pc = "error"
    /\ pc = "error" =>
          /\ result.status = "err"
          /\ result.value = <<>>
          /\ ~ENABLED Next
          /\ Len(translated_segments) <= pos
          /\ ContributedBy(WindowIndex) = {}
          /\ progress = pos

\* C16 witness: the Summary call of the second window failed while the
\* window held a segment; the output holds the first window only.
C16_Witness ==
    /\ pc = "error"
    /\ http.state = "failed"
    /\ Len(calls) >= 1
    /\ calls[Len(calls)].stage = "summarize"
    /\ calls[Len(calls)].window = 1
    /\ mapped_results # <<>>
    /\ Len(translated_segments) = 1

\* C17: when the run aborts while processing a window, the segments
\* accumulated for the windows before it are in what process_translation
\* hands to its caller.
C17_PartialOutputKept ==
    pc = "error" => result.value = translated_segments

\* the response that ended call h
FinalResponse(h) == h.received[Len(h.received)]

\* C18: on every vendor path a call that returned text ended on a 2xx
\* response whose envelope holds the content string, and a call whose final
\* response is a non-2xx or an envelope without the string has failed with
\* an error.
C18_TextOnlyFromGoodEnvelope ==
    /\ http.state = "returned" =>
          /\ FinalResponse(http).status = "2xx"
          /\ FinalResponse(http).text
          /\ result.status = "ok"
    /\ (http.state \in {"failed", "returned"} /\ http.received # <<>>
        /\ ~(FinalResponse(http).status = "2xx" /\ FinalResponse(http).text)) =>
          /\ http.state = "failed"
          /\ pc = "client_failed"
          /\ result.status = "err"
    /\ pc = "client_idle" /\ calls # <<>> => http.state = "returned"

\* C18 witness: a Gemini call failed on a 2xx response whose envelope holds
\* no text.
C18_Witness ==
    /\ pc = "client_failed"
    /\ http.state = "failed"
    /\ Unwrap(http.provider).api_type = "Gemini"
    /\ http.received # <<>>
    /\ FinalResponse(http).status = "2xx"
    /\ ~FinalResponse(http).text
    /\ Unwrap(result.error).kind = "ParseContent"

\* the first filter names a provider that is not configured while the
\* provider of the default model of the edit stage is
UnresolvedOverride ==
    /\ FilterEnabled
    /\ IsSome(Filters[1].llm)
    /\ \A i \in 1..Len(cfg.providers) :
          cfg.providers[i].id # SplitModel(Unwrap(Filters[1].llm))[1]
    /\ \E i \in 1..Len(cfg.providers) :
          cfg.providers[i].id = SplitModel(Unwrap(cfg.edit).default_model)[1]

\* C19: when the provider override of the filter is not configured and the
\* default provider of the stage is, the Filter request goes to the default
\* provider and the run does not fail on the lookup.
C19_FilterFallsBackToDefault ==
    UnresolvedOverride =>
        /\ result.status = "err" =>
              Unwrap(result.error).kind # "DefaultProviderNotFound"
        /\ pc = "filter" => ENABLED FilterCall
        /\ pc = "filter_wait" =>
              /\ result.status = "running"
              /\ IsSome(http.provider)
              /\ Unwrap(http.provider).id = SplitModel(Unwrap(cfg.edit).default_model)[1]
              /\ calls[Len(calls)].stage = "filter"
              /\ calls[Len(calls)].provider = Unwrap(http.provider).id
              /\ Len(http.sent) >= 1

\* C19 witness: the Filter request of a run whose filter names the provider
\* y, which is not configured, is in flight to the default provider c.
C19_Witness ==
    /\ UnresolvedOverride
    /\ pc = "filter_wait"
    /\ Filters[1].llm = Some(<<"y", "/", "f">>)
    /\ Unwrap(http.provider).id = <<"c">>
    /\ Len(http.sent) = 1

\* C20: after Edit on a window of n segments, for every position below n:
\* when the cleaned reply has a line at that position the translated text
\* of the segment is that line (without its surrounding whitespace),
\* otherwise it is the translated text the segment had before; the lines
\* beyond the window are ignored and nothing else of a segment changes.
C20_EditIsPositional ==
    (pc = "filter" /\ last.stage = "edit") =>
        /\ Len(mapped_results) = Len(last.before)
        /\ \A i \in 1..Len(last.before) :
              /\ mapped_results[i].start = last.before[i].start
              /\ mapped_results[i].end = last.before[i].end
              /\ mapped_results[i].original = last.before[i].original
              /\ mapped_results[i].translated =
                    IF i <= Len(last.decoded) THEN Trim(last.decoded[i])
                    ELSE last.before[i].translated

\* C20 witness: the reply to a window of two segments has one line; the
\* first segment took the line, the second kept its text.
C20_Witness ==
    /\ pc = "filter"
    /\ last.stage = "edit"
    /\ Len(last.before) = 2
    /\ last.decoded = << <<"e">> >>
    /\ mapped_results[1].translated = <<"e">>
    /\ last.before[1].translated # <<"e">>
    /\ mapped_results[2].translated = last.before[2].translated
    /\ mapped_results[2].translated # <<>>

\* the bridge failed on an item of the window in progress
BridgeFailed ==
    result.status = "err" /\ Unwrap(result.error).kind = "Bridge"

\* C21: with the local bridge backend the platform capability is invoked
\* once for every item with a non-empty source text, in item order, and
\* never for an item with an empty text, whose translation is the empty
\* string; on success the response holds one entry per item with the id of
\* the item.
C21_BridgeInvokedPerItem ==
    ~IsLLM =>
        LET items == BatchItems(Texts(chunk))
            k == Len(bridge.results)
            tried == IF BridgeFailed THEN k + 1 ELSE k
        IN
        /\ calls = <<>> \/ \A a \in 1..Len(calls) : calls[a].stage # "translate"
        /\ tried <= Len(items)
        /\ \A i \in 1..k :
              /\ bridge.results[i].id = items[i].id
              /\ items[i].text = <<>> => bridge.results[i].translated_text = <<>>
        /\ bridge.invoked =
              SelectSeq(SubSeq(Texts(chunk), 1, tried), LAMBDA t : t # <<>>)
        /\ (pc = "edit" /\ last.stage = "translate") =>
              /\ last.decoded = bridge.results
              /\ k = Len(items)

\* C21 witness: a window of two items whose second text is empty has been
\* translated with one invocation of the bridge.
C21_Witness ==
    /\ ~IsLLM
    /\ pc = "edit"
    /\ Len(chunk) = 2
    /\ chunk[2].text = <<>>
    /\ bridge.invoked = <<chunk[1].text>>
    /\ Len(bridge.results) = 2
    /\ bridge.results[2] = [id |-> 1, translated_text |-> <<>>]
    /\ bridge.results[1].translated_text # <<>>

\* the stages of a window
InWindow ==
    pc \in {"translate", "translate_wait", "edit", "edit_wait", "filter",
            "filter_wait", "summarize", "summarize_wait"}

\* the window size the configuration asks for
ConfiguredWindow ==
    IF IsSome(cfg.engine.window) THEN Unwrap(cfg.engine.window) ELSE 100

\* the k-th slice of w segments, k counted from zero
Slice(k, w) ==
    [i \in 1..(Min((k + 1) * w, Len(segments)) - k * w) |-> segments[k * w + i]]

\* the window in progress is a non-empty slice of the transcript, full
\* unless it is the last, and the requests in flight number its items from
\* zero by position
WindowIsSlice ==
    LET w == ConfiguredWindow IN
    /\ InWindow =>
          /\ w >= 1
          /\ pos % w = 0
          /\ chunk = Slice(pos \div w, w)
          /\ chunk # <<>>
          /\ Len(chunk) = w \/ pos + Len(chunk) = Len(segments)
    /\ (pc = "translate_wait" /\ http.sent # <<>>) =>
          SentContent(http, 2).items =
              [i \in 1..Len(chunk) |-> [id |-> i - 1, text |-> chunk[i].text]]
    /\ (pc = "edit_wait" /\ http.sent # <<>>) =>
          /\ Len(mapped_results) = Len(chunk)
          /\ \A i \in 1..Len(chunk) : mapped_results[i].start = chunk[i].start
          /\ SentContent(http, 2).batch_text =
                Join([i \in 1..Len(chunk) |-> mapped_results[i].translated], <<"\n">>)
    /\ (pc = "filter_wait" /\ http.sent # <<>>) =>
          /\ Len(mapped_results) = Len(chunk)
          /\ \A i \in 1..Len(chunk) : mapped_results[i].start = chunk[i].start
          /\ SentContent(http, 1).items =
                [i \in 1..Len(chunk) |->
                    [id |-> i - 1, text |-> mapped_results[i].translated]]
    /\ result.status = "ok" => pos = Len(segments)

\* the first window starts at the first segment and every other window
\* starts where the window before it ended
WindowsConsecutive ==
    /\ (pc = "start" /\ pc' # "start") => pos' = 0
    /\ pos' # pos => pos' = pos + Len(chunk)
    /\ chunk' # chunk => (pc = "start" \/ pos' # pos)

\* C22: for a window size w >= 1 the windows are the consecutive slices
\* [0,w), [w,2w), ... of the transcript: together they are the input, every
\* window but the last has w segments, no window is empty, and the item at
\* position i of a window has id i in the Translate, Edit and Filter stages;
\* an unset window size means w = 100.
C22_WindowsAreSlices == [](WindowIsSlice) /\ [][WindowsConsecutive]_vars

\* C22 witness: the second window of one segment is at its Filter call.
C22_Witness ==
    /\ pc = "filter_wait"
    /\ ConfiguredWindow = 1
    /\ pos = 1
    /\ chunk = <<segments[2]>>
    /\ SentContent(http, 1).items[1].id = 0

\* a step that completes a window: the Summarize step hands over to the
\* next window or to the return
CompletesWindow ==
    pc \in {"summarize", "summarize_wait"} /\ pc' \in {"translate", "done"}

\* the progress moves when a window completes and only then, by the number
\* of segments of the window
ProgressPerWindow ==
    /\ CompletesWindow => progress' = progress + Len(chunk)
    /\ progress' # progress => CompletesWindow
    /\ progress' >= progress

\* C23: the progress counter advances once per completed window, by the
\* number of input segments of that window whatever Filter removed and
\* however many calls were made; it never decreases, and on successful
\* completion it equals the number of input segments.
C23_ProgressCountsInput ==
    /\ [](result.status = "ok" => progress = Len(segments))
    /\ [](progress <= Len(segments))
    /\ [][ProgressPerWindow]_vars

\* C23 witness: a run over two segments has completed with a segment
\* removed by Filter, and the progress is two.
C23_Witness ==
    /\ pc = "done"
    /\ result.status = "ok"
    /\ Len(segments) = 2
    /\ Len(result.value) < 2
    /\ progress = 2

\* the windows of the logged Translate calls, in the order of the calls
TranslateWindows ==
    LET tr == SelectSeq(calls, LAMBDA c : c.stage = "translate") IN
    [a \in 1..Len(tr) |-> tr[a].window]

\* ceil(n / w)
CeilDiv(n, w) == (n + w - 1) \div w

\* a run that has returned its output has gone through every window once,
\* in index order; a run over no segment makes no call and returns nothing
ReturnedAfterAllWindows ==
    /\ result.status = "ok" =>
          /\ pc = "done"
          /\ pos = Len(segments)
          /\ pos = progress
          /\ IsLLM => TranslateWindows =
                [a \in 1..CeilDiv(Len(segments), ConfiguredWindow) |-> a - 1]
    /\ segments = <<>> =>
          /\ calls = <<>>
          /\ bridge = NoBridge
          /\ result.status = "ok" => result.value = <<>>

\* the run returns on the step that ends the Summarize stage of the last
\* window, or at once when there is no segment
ReturnsAfterLastSummarize ==
    (pc # "done" /\ pc' = "done") =>
        \/ /\ pc \in {"summarize", "summarize_wait"}
           /\ pos + Len(chunk) = Len(segments)
           /\ pos \div ConfiguredWindow = CeilDiv(Len(segments), ConfiguredWindow) - 1
        \/ /\ pc = "start"
           /\ segments = <<>>

\* the run has stopped: it returned its output or a fatal error
Stopped == pc \in {"done", "error"}

RECURSIVE Replay(_, _)
Replay(h, rs) ==
    IF rs = <<>> \/ h.state # "sent" THEN h
    ELSE LET r == Head(rs) IN
         IF ShouldRetry(h, r) THEN Replay(RetryCall(h, r), Tail(rs))
         ELSE IF IsSuccess(r) THEN Replay(ReturnCall(h, r), Tail(rs))
         ELSE Replay(FailCall(h, r), Tail(rs))

\* the call of the client in progress or ended last, as its arguments, the
\* provider and the responses to it determine it
CallAlone ==
    Replay(StartCall(cfg.providers[1], TransModel[2], ClientMessages,
                     last.parsed, last.decoded),
           http.received)

\* C25: the calls on one client are independent: the requests sent and the
\* outcome of a call depend only on its arguments, the provider
\* configuration and the responses to that call; a call after a call that
\* used its retry again sends the response-format field first and again
\* has its one retry.
C25_CallsIndependent ==
    last.stage = "client" =>
        /\ http = CallAlone
        /\ (result.status = "err") = (http.state = "failed")
        /\ result.status = "err" => Unwrap(result.error) = CallError(CallAlone)
        /\ (Len(http.sent) = 1 /\ http.state = "sent") =>
              /\ http.retry_count = 0
              /\ http.sent[1] = StartCall(cfg.providers[1], TransModel[2],
                                          ClientMessages, last.parsed,
                                          last.decoded).sent[1]
              /\ OnOpenAiPath(http) => ENABLED ClientRetry

\* C25 witness: the second call on a client whose first call used its
\* retry has sent the response-format field and used its own retry.
C25_Witness ==
    /\ Len(calls) = 2
    /\ last.stage = "client"
    /\ last.before = <<1>>
    /\ OnOpenAiPath(http)
    /\ Len(http.sent) = 2
    /\ http.sent[1].body.response_format # None
    /\ http.retry_count = 1

\* the provider id that the text of a fatal error holds: the lookup errors
\* format the id they looked for, the errors of a call hold the error text
\* of the server or a fixed message
ErrorProviderId(e) ==
    IF e.kind \in {"ProviderNotFound", "DefaultProviderNotFound"}
    THEN Some(e.detail) ELSE None

\* the window index that the text of a fatal error holds: no error of the
\* run is built from the position of the chunk
ErrorWindowIndex(e) == None

\* the provider a fatal error came from: the one the failed call went to,
\* or the one a lookup did not find
ProviderInvolved ==
    IF http.state = "failed" THEN Some(Unwrap(http.provider).id)
    ELSE ErrorProviderId(Unwrap(result.error))

\* C26: every fatal error that process_translation returns identifies the
\* index of the window being processed and the id of the provider involved.
C26_ErrorsCarryContext ==
    (pc = "error" /\ chunk # <<>>) =>
        LET e == Unwrap(result.error) IN
        /\ ErrorWindowIndex(e) = Some(WindowIndex)
        /\ IsSome(ProviderInvolved) => ErrorProviderId(e) = ProviderInvolved

\* the response-format field by json_mode, the declared capability and the
\* schema: none, the json_object form, or the strict json_schema form
FieldByCapability(json_mode, capability, schema) ==
    IF ~json_mode \/ capability = "None" THEN None
    ELSE IF capability = "JsonSchema" /\ IsSome(schema)
    THEN Some([type |-> "json_schema", strict |-> TRUE, schema |-> schema])
    ELSE Some([type |-> "json_object", strict |-> FALSE, schema |-> None])

\* a call of the harness on the OpenAI-compatible path has sent a request
ClientCallSent ==
    last.stage = "client" /\ OnOpenAiPath(http) /\ http.sent # <<>>

\* the provider is an Ollama server asked for JSON in json_object mode
OllamaJsonObject ==
    /\ last.parsed
    /\ Unwrap(http.provider).api_type = "Ollama"
    /\ Unwrap(http.provider).json_mode_type = "JsonObject"

\* C27 as stated: on the OpenAI-compatible path the JSON-mode field of the
\* first request is a function of json_mode, the declared capability and
\* the schema: none when json_mode is false or the capability is none, the
\* json_object form for json_object, the strict json_schema form for
\* json_schema with a schema, the json_object form for json_schema without.
C27_FieldByCapability ==
    ClientCallSent =>
        http.sent[1].body.response_format =
            FieldByCapability(last.parsed, Unwrap(http.provider).json_mode_type,
                              last.decoded)

\* C27 amended: as C27, except that a provider of api type Ollama with the
\* capability json_object gets, when json_mode is requested, the field
\* format = json in place of a response-format field; no other request
\* carries a format field.
C27_FieldByCapabilityAndApiType ==
    ClientCallSent =>
        LET b == http.sent[1].body IN
        IF OllamaJsonObject
        THEN b.response_format = None /\ b.format = Some("json")
        ELSE /\ b.format = None
             /\ b.response_format =
                   FieldByCapability(last.parsed,
                                     Unwrap(http.provider).json_mode_type,
                                     last.decoded)

\* C27 witness: json_mode was requested of an Ollama provider with the
\* capability json_object, and the first request carries format = json.
C27_Witness ==
    /\ ClientCallSent
    /\ OllamaJsonObject
    /\ http.sent[1].body.format = Some("json")
    /\ http.sent[1].body.response_format = None

\* a call of the harness on the Gemini path has sent its request
GeminiCallSent ==
    /\ last.stage = "client"
    /\ IsSome(http.provider)
    /\ Unwrap(http.provider).api_type = "Gemini"
    /\ http.sent # <<>>

\* every message of the call is in the request, with role user if its role
\* is user and with role model otherwise
RolesRemapped ==
    LET contents == http.sent[1].body.contents IN
    /\ Len(contents) = Len(ClientMessages)
    /\ \A i \in 1..Len(ClientMessages) :
          /\ contents[i].parts = ClientMessages[i].content
          /\ contents[i].role =
                IF ClientMessages[i].role = "user" THEN "user" ELSE "model"

\* C28 as stated: on the Gemini path the request carries
\* responseMimeType = application/json exactly when json_mode is requested,
\* and each message is sent with role user if its role is user and with
\* role model otherwise.
C28_MimeTypeWhenJsonMode ==
    GeminiCallSent =>
        /\ (http.sent[1].body.generationConfig = Some("application/json"))
              = last.parsed
        /\ RolesRemapped

\* C28 amended: the request carries responseMimeType = application/json
\* exactly when json_mode is requested and the declared capability of the
\* provider is not none; the roles are as in C28.
C28_MimeTypeWhenJsonModeAndCapable ==
    GeminiCallSent =>
        /\ (http.sent[1].body.generationConfig = Some("application/json"))
              = (last.parsed /\ Unwrap(http.provider).json_mode_type # "None")
        /\ http.sent[1].body.generationConfig \in {None, Some("application/json")}
        /\ RolesRemapped

\* C28 witness: json_mode was requested of a Gemini provider whose declared
\* capability is none, and the request carries no generationConfig.
C28_Witness ==
    /\ GeminiCallSent
    /\ last.parsed
    /\ Unwrap(http.provider).json_mode_type = "None"
    /\ http.sent[1].body.generationConfig = None
    /\ http.sent[1].body.contents[1].role = "model"

\* what may surround the JSON value of a reply that is not in a code fence
BarePre == {<<>>, <<" ">>, <<"#", " ">>, <<"j", "s", "o", "n">>}
BarePost == {<<>>, <<"\n">>, <<"#">>}

\* the replies without a code fence that hold one of the payloads
BareReplies(payloads) ==
    {JsonReply(pre, p, post) : pre \in BarePre, p \in payloads, post \in BarePost}

\* the reply inside a Markdown code fence: the opening fence, with the json
\* tag or without, on the line before it and the closing fence on the line
\* after it
Fenced(open, r) ==
    JsonReply(open \o <<"\n">> \o r.pre, r.payload, r.post \o <<"\n">> \o Fence)

\* payloads of a reply to the Translate request and to the Filter request:
\* text that is no JSON, a value of the other shape, and values of the
\* shape asked for
TranslatePayloads ==
    {JunkPayload, FilterPayload(<<0>>), TranslationsPayload(<<>>),
     TranslationsPayload(<<[id |-> 0, translated_text |-> <<"x">>]>>)}
FilterPayloads ==
    {JunkPayload, TranslationsPayload(<<>>), FilterPayload(<<>>), FilterPayload(<<0>>)}

\* C29: decoding a Translate or a Filter reply that is wrapped in a
\* Markdown code fence, with the json tag or without, yields the same
\* result as decoding the same reply without the fence: the same
\* translations and window result, the same batch after Filter.
C29_FenceIsTransparent ==
    /\ pc = "translate_wait" =>
          \A r \in BareReplies(TranslatePayloads) :
              \A open \in {Fence, FenceJson} :
                  /\ DecodeTranslations(Fenced(open, r), BatchItems(Texts(chunk)))
                        = DecodeTranslations(r, BatchItems(Texts(chunk)))
                  /\ ParsesAs(CleanJsonReply(Fenced(open, r)), "translations")
                        = ParsesAs(CleanJsonReply(r), "translations")
    /\ pc = "filter_wait" =>
          \A r \in BareReplies(FilterPayloads) :
              \A open \in {Fence, FenceJson} :
                  FilterApply(mapped_results, Fenced(open, r))
                      = FilterApply(mapped_results, r)

\* C29 witness: the Filter request of a window of two segments is in
\* flight, and a reply in a fence with the json tag decodes and removes a
\* segment.
C29_Witness ==
    /\ pc = "filter_wait"
    /\ Len(mapped_results) = 2
    /\ \E r \in BareReplies(FilterPayloads) :
          /\ ParsesAs(CleanJsonReply(Fenced(FenceJson, r)), "filter")
          /\ Len(FilterApply(mapped_results, Fenced(FenceJson, r))) = 1
          /\ FenceJson \o <<"\n">> \o r.pre # r.pre

\* the step out of the Summarize stage of a window: with the local bridge
\* or with no segment left it changes neither the summary nor the call log
\* and ends the window, otherwise it issues the Summary call
SummaryStep ==
    pc = "summarize" =>
        IF ~IsLLM \/ mapped_results = <<>>
        THEN /\ summary' = summary
             /\ calls' = calls
             /\ http' = http
             /\ pc' \in {"translate", "done"}
        ELSE /\ Len(calls') = Len(calls) + 1
             /\ calls'[Len(calls')].stage = "summarize"
             /\ calls'[Len(calls')].window = WindowIndex
             /\ summary' = summary

\* the Translate request in flight embeds the rolling summary as it stands
PromptEmbedsSummary ==
    (pc = "translate_wait" /\ http.sent # <<>>) =>
        SentContent(http, 2).summary = summary

\* C30: for a window the rolling summary is left unchanged and no Summary
\* call is made exactly when the engine is the local bridge or the window
\* has no segment left after Filter; the prompt of the next window then
\* embeds the summary as it was before.
C30_SummarySkippedExactlyWhen == [](PromptEmbedsSummary) /\ [][SummaryStep]_vars

\* C30 witness: Filter emptied the first window of a run of the LLM engine,
\* no Summary call was made, and the Translate request of the second window
\* embeds the summary as it was.
C30_Witness ==
    /\ pc = "translate_wait"
    /\ IsLLM
    /\ pos = 1
    /\ translated_segments = <<>>
    /\ \A a \in 1..Len(calls) : calls[a].stage # "summarize"
    /\ \E a \in 1..Len(calls) : calls[a].stage = "filter"
    /\ SentContent(http, 2).summary = Sentinel

\* C31: when the decoded Translate response holds several entries with the
\* same id, the first of them in response order gives the translation of
\* the item; the window result has one segment per item of the window with
\* the times and source text of that item, so an entry whose id lies
\* outside 0..window_len-1 affects no output segment.
C31_FirstEntryWins ==
    (pc = "edit" /\ last.stage = "translate") =>
        /\ Len(mapped_results) = Len(chunk)
        /\ \A i \in 1..Len(chunk) :
              LET hits == {j \in 1..Len(last.decoded) : last.decoded[j].id = i - 1} IN
              /\ mapped_results[i].start = chunk[i].start
              /\ mapped_results[i].end = chunk[i].end
              /\ mapped_results[i].original = chunk[i].text
              /\ mapped_results[i].translated =
                    IF hits = {} THEN chunk[i].text
                    ELSE last.decoded[CHOOSE j \in hits : \A k \in hits : j <= k]
                            .translated_text

\* C31 witness: the decoded response holds two entries with the id of the
\* first item and different texts, and the item has the text of the first.
C31_Witness ==
    /\ pc = "edit"
    /\ last.stage = "translate"
    /\ last.parsed
    /\ Len(last.decoded) = 2
    /\ last.decoded[1].id = 0
    /\ last.decoded[2].id = 0
    /\ last.decoded[1].translated_text # last.decoded[2].translated_text
    /\ mapped_results[1].translated = last.decoded[1].translated_text

\* the pieces of s between its line feeds, empty pieces included
RECURSIVE SplitLines(_)
SplitLines(s) ==
    LET i == Find(s, "\n", 1) IN
    IF i = 0 THEN <<s>>
    ELSE <<SubSeq(s, 1, i - 1)>> \o SplitLines(SubSeq(s, i + 1, Len(s)))

\* C32: the input text of the Edit request holds exactly one line per
\* segment of the window, and line i of it is the translated text of
\* segment i, whatever the translated texts are.
C32_OneLinePerSegment ==
    (pc = "edit_wait" /\ http.sent # <<>>) =>
        LET ls == SplitLines(SentContent(http, 2).batch_text) IN
        /\ Len(ls) = Len(chunk)
        /\ \A i \in 1..Len(chunk) : ls[i] = mapped_results[i].translated

\* a provider with this id is configured
Configured(id) == \E i \in 1..Len(cfg.providers) : cfg.providers[i].id = id

\* the provider/model string of the first filter condition, if it has one,
\* and the one of the edit stage, split at the slash
FirstOverride == SplitModel(Unwrap(Filters[1].llm))
StageDefault == SplitModel(Unwrap(cfg.edit).default_model)

\* the logged Filter calls
FilterCalls == {a \in 1..Len(calls) : calls[a].stage = "filter"}

\* every window has at most one Filter call, and a window whose Filter
\* request is in flight has one
OneFilterCall ==
    /\ \A a, b \in FilterCalls : calls[a].window = calls[b].window => a = b
    /\ pc = "filter_wait" => \E a \in FilterCalls : calls[a].window = WindowIndex

\* C33 as stated: the combined Filter request of a window goes to exactly
\* one provider and model, the one the override of the first condition
\* names if it has one, otherwise the stage default; the overrides of the
\* later conditions have no influence.
C33_FirstOverrideOrDefault ==
    /\ OneFilterCall
    /\ \A a \in FilterCalls :
          LET named == IF IsSome(Filters[1].llm) THEN FirstOverride ELSE StageDefault IN
          /\ calls[a].provider = named[1]
          /\ calls[a].model = named[2]

\* C33 amended: as C33, when the provider id of the override of the first
\* condition is configured or the condition has no override; when that
\* provider id is not configured the request goes to the provider of the
\* stage default.
C33_FirstOverrideIfConfigured ==
    /\ OneFilterCall
    /\ \A a \in FilterCalls :
          IF ~IsSome(Filters[1].llm)
          THEN calls[a].provider = StageDefault[1] /\ calls[a].model = StageDefault[2]
          ELSE IF Configured(FirstOverride[1])
          THEN calls[a].provider = FirstOverride[1] /\ calls[a].model = FirstOverride[2]
          ELSE calls[a].provider = StageDefault[1]

\* C33 witness: the first condition names the provider y, which is not
\* configured, and the Filter call of the second window has gone to the
\* provider of the stage default, as the one of the first window.
C33_Witness ==
    /\ pc = "filter_wait"
    /\ Filters[1].llm = Some(<<"y", "/", "f">>)
    /\ Cardinality(FilterCalls) = 2
    /\ \A a \in FilterCalls : calls[a].provider = <<"c">>

\* C34: in every Filter request the provider and the model name come from
\* the same configured provider/model string: when the stage falls back to
\* the default provider because the provider id of the override is not
\* configured, the request uses the model of the default string, not the
\* model name of the override.
C34_ModelOfSameString ==
    \A a \in FilterCalls :
        /\ \/ /\ calls[a].provider = StageDefault[1]
              /\ calls[a].model = StageDefault[2]
           \/ /\ IsSome(Filters[1].llm)
              /\ calls[a].provider = FirstOverride[1]
              /\ calls[a].model = FirstOverride[2]
        /\ (IsSome(Filters[1].llm) /\ ~Configured(FirstOverride[1])) =>
              calls[a].model = StageDefault[2]

\* the entries of the bridge response for items with a text
InvokedResults ==
    {i \in 1..Len(bridge.results) : chunk[i].text # <<>>}

\* C35: with the local bridge backend an error of the platform translate
\* capability for an item aborts the run with an error: the item is not
\* replaced by its source text (an entry of the response is a text the
\* capability returned, and the failed item has no entry), and no later
\* item or window is translated.
C35_BridgeErrorAborts ==
    ~IsLLM =>
        /\ \A i \in InvokedResults :
              bridge.results[i].translated_text \in BridgeTexts
        /\ Len(bridge.invoked) > Cardinality(InvokedResults) => BridgeFailed
        /\ BridgeFailed =>
              /\ pc = "error"
              /\ Len(bridge.invoked) = Cardinality(InvokedResults) + 1
              /\ Len(bridge.results) < Len(chunk)
              /\ mapped_results = <<>>
              /\ result.value = <<>>
              /\ Len(translated_segments) <= pos
              /\ ~ENABLED Next

\* C35 witness: the bridge failed on the second window of a run of two
\* windows; the first window is translated and nothing of the second is.
C35_Witness ==
    /\ ~IsLLM
    /\ BridgeFailed
    /\ pos = 1
    /\ Len(chunk) = 1
    /\ Len(translated_segments) = 1
    /\ bridge.results = <<>>
    /\ bridge.invoked = <<chunk[1].text>>

\* C36: process_translation does not crash for any window size that the
\* configuration accepts, window = 0 included: a run that has stopped has
\* returned the translated segments or an error value.
C36_NoCrashOnAnyWindow ==
    /\ pc # "panic"
    /\ result.status # "panic"
    /\ ~ENABLED Next => result.status \in {"ok", "err"}

----------------------------------------------------------------------------
(* The SRT writer (src/src/output.rs) *)

\* the decimal digits of a natural number
RECURSIVE Digits(_)
Digits(n) ==
    LET d == <<"0", "1", "2", "3", "4", "5", "6", "7", "8", "9">>[(n % 10) + 1] IN
    IF n < 10 THEN <<d>> ELSE Digits(n \div 10) \o <<d>>

\* the format {:0width}: zeros on the left up to the width
RECURSIVE ZeroPad(_, _)
ZeroPad(s, width) == IF Len(s) >= width THEN s ELSE ZeroPad(<<"0">> \o s, width)

\* the format "{:02}:{:02}:{:02},{:03}"
Clock(hours, minutes, seconds, millis) ==
    ZeroPad(Digits(hours), 2) \o <<":">> \o ZeroPad(Digits(minutes), 2) \o <<":">>
        \o ZeroPad(Digits(seconds), 2) \o <<",">> \o ZeroPad(Digits(millis), 3)

\* format_timestamp, for a non-negative argument
format_timestamp(ms) ==
    Clock(ms \div 3600000, (ms % 3600000) \div 60000, (ms % 60000) \div 1000, ms % 1000)

\* save_srt: the entries written for the segments, in order
save_srt(segs) ==
    [i \in 1..Len(segs) |->
        [number |-> Digits(i),
         times |-> format_timestamp(segs[i].start) \o <<" ", "-", "-", ">", " ">>
                       \o format_timestamp(segs[i].end),
         text |-> segs[i].translated]]

\* starts and ends of segments, in centiseconds: around a second, a minute
\* and an hour
SrtTimes == {0, 1, 150, 5999, 6000, 359999, 360000}

SrtSegments ==
    {seg \in [start : SrtTimes, end : SrtTimes,
              original : {<<"h">>}, translated : {<<"x">>}] : seg.start < seg.end}

InitSrt ==
    /\ segments = <<>>
    /\ cfg = [engine |-> [type |-> "Apple", model |-> <<>>, window |-> None],
              edit |-> None, providers |-> <<>>]
    /\ pc = "srt_idle"
    /\ pos = 0
    /\ chunk = <<>>
    /\ mapped_results = <<>>
    /\ translated_segments \in SeqsOf(SrtSegments, 0, MaxSegs)
    /\ summary = Sentinel
    /\ progress = 0
    /\ http = HttpIdle
    /\ bridge = NoBridge
    /\ last = NoLast
    /\ calls = <<>>
    /\ result = Running

\* the translated segments are written as SRT entries
SaveSrt ==
    /\ pc = "srt_idle"
    /\ pc' = "srt_written"
    /\ result' = Ok(save_srt(translated_segments))
    /\ UNCHANGED <<segments, cfg, pos, chunk, mapped_results, translated_segments,
                   summary, progress, http, bridge, last, calls>>

NextSrt == SaveSrt

SpecSrt == InitSrt /\ [][NextSrt]_vars

\* the HH:MM:SS,mmm time of an instant given in centiseconds
ClockOfCentiseconds(cs) ==
    Clock(cs \div 360000, (cs \div 6000) % 60, (cs \div 100) % 60, (cs % 100) * 10)

\* C37: the SRT writer renders the start and the end of a segment, which
\* are given in centiseconds, as the matching HH:MM:SS,mmm time (150
\* centiseconds is 00:00:01,500), and numbers the entries 1..n in output
\* order.
C37_SrtTimesMatch ==
    pc = "srt_written" =>
        /\ Len(result.value) = Len(translated_segments)
        /\ \A i \in 1..Len(translated_segments) :
              /\ result.value[i].number = Digits(i)
              /\ result.value[i].text = translated_segments[i].translated
              /\ result.value[i].times =
                    ClockOfCentiseconds(translated_segments[i].start)
                        \o <<" ", "-", "-", ">", " ">>
                        \o ClockOfCentiseconds(translated_segments[i].end)

====
